---- MODULE Spec2Model ----
(***************************************************************************)
(* A model of the SLEIGH .sla parser of tree-sitter-sleigh (src/lib.rs).   *)
(*                                                                         *)
(* Text is a sequence of one-character strings.  A document is a sequence  *)
(* of tokens, one per leaf of the grammar: a tag token carries its literal *)
(* (`<sleigh`, `/>`), an attribute token carries the attribute's name and  *)
(* the raw text between its quotes.  parse first matches the tokens        *)
(* against the grammar (every `rust_sitter::leaf` pattern, in the order of *)
(* the struct fields) and only then runs the leaf transforms, the way the  *)
(* generated parser does: a document the grammar rejects is an Err, a      *)
(* transform whose `expect` fails is a panic.                              *)
(***************************************************************************)
EXTENDS Integers, Sequences, FiniteSets, Bags, TLC

VARIABLES
    input,      \* the argument of the call: a token sequence, or a text
    result,     \* what the last call returned
    prev,       \* what the call before it returned, on the same input
    ncalls,     \* parse calls made on `input` so far
    other,      \* an unrelated parse call made in between (index, 0: none)
    pc,         \* "ready" before the call, "done" after it
    compiled,   \* the bag of the regex compilations made in the process
    threads,    \* the parse calls running on threads of their own
    cells       \* the regex cells alive in those calls

vars == <<input, result, prev, ncalls, other, pc, compiled, threads, cells>>

(***************************************************************************)
(* Bounds of the model.                                                    *)
(***************************************************************************)
MaxBlocks == 5      \* sections in a generated document
MaxCalls == 2       \* parse calls on one input
MaxPieces == 3      \* pieces in a text given to xml_unescape
MaxFill == 19       \* repeated digits after the first digit of a number

(***************************************************************************)
(* Characters.                                                             *)
(***************************************************************************)
Digits == {"0", "1", "2", "3", "4", "5", "6", "7", "8", "9"}
LowerHex == {"a", "b", "c", "d", "e", "f"}
UpperHex == {"A", "B", "C", "D", "E", "F"}
HexDigits == Digits \cup LowerHex \cup UpperHex
Lower == {"a", "b", "c", "d", "e", "f", "g", "h", "i", "j", "k", "l", "m",
          "n", "o", "p", "q", "r", "s", "t", "u", "v", "w", "x", "y", "z"}

None == [some |-> FALSE, val |-> <<>>]
Some(v) == [some |-> TRUE, val |-> v]

Tail2(s) == SubSeq(s, 3, Len(s))
AllIn(s, C) == \A i \in 1..Len(s) : s[i] \in C
StartsWith(s, p) == Len(s) >= Len(p) /\ SubSeq(s, 1, Len(p)) = p

(***************************************************************************)
(* malachite::Integer: a sign and a magnitude of any size.  The magnitude  *)
(* is a little-endian sequence of limbs without a leading zero limb, so    *)
(* that equal numbers are equal values; zero is the empty sequence.        *)
(***************************************************************************)
LimbBase == 2 ^ 16

Integer(neg, mag) == [neg |-> neg /\ mag # <<>>, mag |-> mag]

RECURSIVE MulAdd(_, _, _)
\* mag * m + a
MulAdd(mag, m, a) ==
    IF mag = <<>>
    THEN IF a = 0 THEN <<>> ELSE <<a>>
    ELSE LET t == mag[1] * m + a
         IN  <<t % LimbBase>> \o MulAdd(Tail(mag), m, t \div LimbBase)

\* char::to_digit: the value of a digit character in bases up to 36
DigitValue(c) ==
    CASE c \in Digits -> CHOOSE d \in 0..9 :
            <<"0", "1", "2", "3", "4", "5", "6", "7", "8", "9">>[d + 1] = c
      [] c \in {"a", "A"} -> 10
      [] c \in {"b", "B"} -> 11
      [] c \in {"c", "C"} -> 12
      [] c \in {"d", "D"} -> 13
      [] c \in {"e", "E"} -> 14
      [] c \in {"f", "F"} -> 15
      [] OTHER -> 36

RECURSIVE NaturalFromDigits(_, _, _)
\* Horner's rule over the digits, most significant first
NaturalFromDigits(base, s, acc) ==
    IF s = <<>> THEN acc
    ELSE NaturalFromDigits(base, Tail(s), MulAdd(acc, base, DigitValue(Head(s))))

\* Integer::from_string_base(base, s): an optional `-`, then digits of the base
from_string_base(base, s) ==
    LET neg == s # <<>> /\ Head(s) = "-"
        digs == IF neg THEN Tail(s) ELSE s
    IN  IF digs = <<>> \/ \E i \in 1..Len(digs) : DigitValue(digs[i]) >= base
        THEN None
        ELSE Some(Integer(neg, NaturalFromDigits(base, digs, <<>>)))

\* a decimal reading that drops the sign
parse_Integer_unsigned(s) ==
    LET r == from_string_base(10, s)
    IN  IF r.some THEN Some(Integer(FALSE, r.val.mag)) ELSE None

\* str::parse::<Integer>(): the decimal reading
parse_Integer(s) == from_string_base(10, s)

\* a decoder of the single letters y and n
parse_bool_yn(s) ==
    IF s = <<"y">> THEN Some(TRUE)
    ELSE IF s = <<"n">> THEN Some(FALSE)
    ELSE None

\* str::parse::<bool>(): `true` and `false` and nothing else
parse_bool(s) ==
    IF s = <<"t", "r", "u", "e">> THEN Some(TRUE)
    ELSE IF s = <<"f", "a", "l", "s", "e">> THEN Some(FALSE)
    ELSE None

(***************************************************************************)
(* XmlUnescape: five str::replace passes, one after the other.             *)
(***************************************************************************)
RECURSIVE replace(_, _, _)
\* str::replace: every non-overlapping match of `from`, left to right
replace(s, from, to) ==
    IF s = <<>> THEN <<>>
    ELSE IF StartsWith(s, from)
         THEN to \o replace(SubSeq(s, Len(from) + 1, Len(s)), from, to)
         ELSE <<Head(s)>> \o replace(Tail(s), from, to)

Amp == <<"&", "a", "m", "p", ";">>
Lt == <<"&", "l", "t", ";">>
Gt == <<"&", "g", "t", ";">>
Quot == <<"&", "q", "u", "o", "t", ";">>
Apos == <<"&", "a", "p", "o", "s", ";">>

xml_unescape(s) ==
    replace(replace(replace(replace(replace(s,
        Amp, <<"&">>), Lt, <<"<">>), Gt, <<">">>), Quot, <<"\"">>), Apos, <<"'">>)

(***************************************************************************)
(* Tokens and leaf patterns.  A token is one match of a leaf pattern: a    *)
(* tag literal, or `name = "text"` with the raw text between the quotes.   *)
(***************************************************************************)
Tag(n) == [name |-> n, text |-> <<>>]
Att(n, t) == [name |-> n, text |-> t]

\* Regex::captures(...).get(1) for the capture group of each leaf pattern:
\*   dec  (-?[0-9]+)      hex  0x([0-9a-fA-F]+)    udec ([0-9]+)
\*   word ([a-z]+)        str1 (one or more characters other than the quote)
\*   str0 (any characters other than the quote)
\*   decpair (-?[0-9]+):(-?[0-9]+), both groups
SignedDigits(text) ==
    LET d == IF text # <<>> /\ Head(text) = "-" THEN Tail(text) ELSE text
    IN  d # <<>> /\ AllIn(d, Digits)

captures(re, text) ==
    CASE re = "dec" ->
            LET d == IF text # <<>> /\ Head(text) = "-" THEN Tail(text) ELSE text
            IN  IF d # <<>> /\ AllIn(d, Digits) THEN Some(text) ELSE None
      [] re = "hex" ->
            IF StartsWith(text, <<"0", "x">>) /\ Len(text) > 2 /\ AllIn(Tail2(text), HexDigits)
            THEN Some(Tail2(text)) ELSE None
      [] re = "udec" ->
            IF text # <<>> /\ AllIn(text, Digits) THEN Some(text) ELSE None
      [] re = "word" ->
            IF text # <<>> /\ AllIn(text, Lower) THEN Some(text) ELSE None
      [] re = "str1" ->
            IF text # <<>> /\ "\"" \notin {text[i] : i \in 1..Len(text)} THEN Some(text) ELSE None
      [] re = "str0" ->
            IF "\"" \notin {text[i] : i \in 1..Len(text)} THEN Some(text) ELSE None
      [] re = "decpair" ->
            LET colons == {i \in 1..Len(text) : text[i] = ":"}
            IN  IF Cardinality(colons) = 1
                THEN LET i == CHOOSE j \in colons : TRUE
                     IN  IF SignedDigits(SubSeq(text, 1, i - 1))
                            /\ SignedDigits(SubSeq(text, i + 1, Len(text)))
                         THEN Some(<<SubSeq(text, 1, i - 1), SubSeq(text, i + 1, Len(text))>>)
                         ELSE None
                ELSE None
      [] OTHER -> None

(***************************************************************************)
(* Grammar items: the fields of the annotated structs, in field order.     *)
(*   leaf: a unit field with a leaf pattern (a tag)                        *)
(*   attr: a field with a leaf pattern and a transform; `pat` is the       *)
(*         pattern the lexer uses, `re` the regex the transform compiles,  *)
(*         `conv` the conversion applied to the captured text              *)
(*   sub:  a field of another annotated type (one, Option or Vec)          *)
(***************************************************************************)
Leaf(n) ==
    [t |-> "leaf", name |-> n, pat |-> "", re |-> "", conv |-> "", field |-> "", mode |-> "one"]
Attr(n, pat, re, conv, field, mode) ==
    [t |-> "attr", name |-> n, pat |-> pat, re |-> re, conv |-> conv, field |-> field, mode |-> mode]
Sub(rule, field, mode) ==
    [t |-> "sub", name |-> rule, pat |-> "", re |-> "", conv |-> "", field |-> field, mode |-> mode]

Dec(n, field) == Attr(n, "dec", "dec", "parse_Integer", field, "one")
OptDec(n, field) == Attr(n, "dec", "dec", "parse_Integer", field, "opt")
Hex(n, field) == Attr(n, "hex", "hex", "from_string_base", field, "one")
OptHex(n, field) == Attr(n, "hex", "hex", "from_string_base", field, "opt")
Bool(n, field) == Attr(n, "word", "word", "parse_bool", field, "one")
Str(n, field) == Attr(n, "str1", "str1", "xml_unescape", field, "one")

Struct(items) == [kind |-> "struct", items |-> items, alts |-> <<>>]
Enum(alts) == [kind |-> "enum", items |-> <<>>, alts |-> alts]
Variant(v, rule) == [variant |-> v, rule |-> rule]

(***************************************************************************)
(* The grammar: one definition per annotated struct or enum.               *)
(***************************************************************************)
Sleigh_sourcefiles_optional ==
    Struct(<< Leaf("<sleigh"),
              OptDec("version", "version"),
              Bool("bigendian", "bigendian"),
              Dec("align", "align"),
              Hex("uniqbase", "uniqbase"),
              OptHex("maxdelay", "maxdelay"),
              OptHex("uniqmask", "uniqmask"),
              Attr("numsections", "hex", "udec", "parse_Integer", "numsections", "opt"),
              Leaf(">"),
              Sub("SourceFiles", "sourcefiles", "opt"),
              Sub("Spaces", "spaces", "one"),
              Sub("SymbolTable", "symbol_table", "one"),
              Leaf("</sleigh>") >>)

Sleigh ==
    Struct(<< Leaf("<sleigh"),
              OptDec("version", "version"),
              Bool("bigendian", "bigendian"),
              Dec("align", "align"),
              Hex("uniqbase", "uniqbase"),
              OptHex("maxdelay", "maxdelay"),
              OptHex("uniqmask", "uniqmask"),
              Attr("numsections", "hex", "udec", "parse_Integer", "numsections", "opt"),
              Leaf(">"),
              Sub("SourceFiles", "sourcefiles", "one"),
              Sub("Spaces", "spaces", "one"),
              Sub("SymbolTable", "symbol_table", "one"),
              Leaf("</sleigh>") >>)

SourceFiles ==
    Struct(<< Leaf("<sourcefiles>"),
              Sub("SourceFile", "source_files", "vec"),
              Leaf("</sourcefiles>") >>)

SourceFile ==
    Struct(<< Leaf("<sourcefile"),
              Str("name", "name"),
              Dec("index", "index"),
              Leaf("/>") >>)

Spaces ==
    Struct(<< Leaf("<spaces"),
              Str("defaultspace", "defaultspace"),
              Leaf(">"),
              Sub("AddrSpaceType", "spaces", "vec"),
              Leaf("</spaces>") >>)

AddrSpace ==
    Struct(<< Str("name", "name"),
              Dec("index", "index"),
              Bool("bigendian", "bigendian"),
              Dec("delay", "delay"),
              OptDec("deadcodedelay", "deadcodedelay"),
              Dec("size", "size"),
              OptDec("wordsize", "wordsize"),
              Bool("physical", "physical") >>)

\* the fields of one struct-like variant: _start, one payload field, _end
Wrapped(open, rule, field, close) ==
    Struct(<< Leaf(open), Sub(rule, field, "one"), Leaf(close) >>)

AddrSpaceType ==
    Enum(<< Variant("Base", "AddrSpaceType::Base"),
            Variant("Unique", "AddrSpaceType::Unique"),
            Variant("Other", "AddrSpaceType::Other"),
            Variant("Overlay", "AddrSpaceType::Overlay"),
            Variant("Space", "AddrSpaceType::Space") >>)

SymbolTable ==
    Struct(<< Leaf("<symbol_table"),
              Dec("scopesize", "scopesize"),
              Dec("symbolsize", "symbolsize"),
              Leaf(">"),
              Sub("Scope", "scopes", "vec"),
              Sub("SymbolHeaderType", "symbol_headers", "vec"),
              Sub("SleighSymbolType", "symbols", "vec"),
              Leaf("</symbol_table>") >>)

\* a scope whose id is written in decimal
Scope_decimal_id ==
    Struct(<< Leaf("<scope"),
              Dec("id", "id"),
              Hex("parent", "parent"),
              Leaf("/>") >>)

Scope ==
    Struct(<< Leaf("<scope"),
              Hex("id", "id"),
              Hex("parent", "parent"),
              Leaf("/>") >>)

SymbolHeader ==
    Struct(<< Str("name", "name"),
              Hex("id", "id"),
              Hex("scope", "scope") >>)

\* the header variants of the symbols modelled below
SymbolHeaderType ==
    Enum(<< Variant("UserOp", "SymbolHeaderType::UserOp"),
            Variant("Value", "SymbolHeaderType::Value"),
            Variant("Operand", "SymbolHeaderType::Operand"),
            Variant("Start", "SymbolHeaderType::Start"),
            Variant("SubTable", "SymbolHeaderType::SubTable") >>)

TokenField ==
    Struct(<< Leaf("<tokenfield"),
              Bool("bigendian", "bigendian"),
              Bool("signbit", "signbit"),
              Dec("bitstart", "bitstart"),
              Dec("bitend", "bitend"),
              Dec("bytestart", "bytestart"),
              Dec("byteend", "byteend"),
              Dec("shift", "shift"),
              Leaf("/>") >>)

ContextField ==
    Struct(<< Leaf("<contextfield"),
              Bool("signbit", "signbit"),
              Dec("startbit", "startbit"),
              Dec("endbit", "endbit"),
              Dec("startbyte", "startbyte"),
              Dec("endbyte", "endbyte"),
              Dec("shift", "shift"),
              Leaf("/>") >>)

ConstantValue ==
    Struct(<< Leaf("<intb"),
              Dec("val", "val"),
              Leaf("/>") >>)

OperandValue ==
    Struct(<< Leaf("<operand_exp"),
              Dec("index", "index"),
              Hex("table", "table"),
              Hex("ct", "constructor_id"),
              Leaf("/>") >>)

PatternValueType ==
    Enum(<< Variant("TokenField", "TokenField"),
            Variant("ContextField", "ContextField"),
            Variant("ConstantValue", "ConstantValue"),
            Variant("OperandValue", "OperandValue"),
            Variant("StartInstructionValue", "PatternValueType::StartInstructionValue"),
            Variant("EndInstructionValue", "PatternValueType::EndInstructionValue"),
            Variant("Next2InstructionValue", "PatternValueType::Next2InstructionValue") >>)

UserOpSymbol ==
    Struct(<< Sub("SymbolHeader", "header", "one"),
              Dec("index", "index") >>)

ValueSymbol ==
    Struct(<< Leaf("<value_sym"),
              Sub("SymbolHeader", "header", "one"),
              Leaf(">"),
              Sub("PatternValueType", "patval", "one"),
              Leaf("</value_sym>") >>)

\* a name table entry whose name, if written, is not empty
NameTableValue_name_nonempty ==
    Struct(<< Leaf("<nametab"),
              Attr("name", "str1", "str1", "xml_unescape", "name", "opt"),
              Leaf("/>") >>)

NameTableValue ==
    Struct(<< Leaf("<nametab"),
              Attr("name", "str0", "str0", "xml_unescape", "name", "opt"),
              Leaf("/>") >>)

NameSymbol ==
    Struct(<< Leaf("<name_sym"),
              Sub("SymbolHeader", "header", "one"),
              Leaf(">"),
              Sub("PatternValueType", "patval", "one"),
              Sub("NameTableValue", "nametable", "vec"),
              Leaf("</name_sym>") >>)

StartSymbol ==
    Struct(<< Leaf("<start_sym"),
              Sub("SymbolHeader", "header", "one"),
              Leaf("/>") >>)

\* a binary expression whose first child is not an expression of any kind
\* but a pattern value only
Binary_flat_left(open, close) ==
    Struct(<< Leaf(open),
              Sub("PatternValueType", "left", "one"),
              Sub("PatternExpressionType", "right", "one"),
              Leaf(close) >>)

\* a binary expression that takes its first child for the right operand
Binary_swapped(open, close) ==
    Struct(<< Leaf(open),
              Sub("PatternExpressionType", "right", "one"),
              Sub("PatternExpressionType", "left", "one"),
              Leaf(close) >>)

\* the fields of one variant of BinaryExpressionType
Binary(open, close) ==
    Struct(<< Leaf(open),
              Sub("PatternExpressionType", "left", "one"),
              Sub("PatternExpressionType", "right", "one"),
              Leaf(close) >>)

\* the fields of one variant of UnaryExpressionType
Unary(open, close) ==
    Struct(<< Leaf(open),
              Sub("PatternExpressionType", "inner", "one"),
              Leaf(close) >>)

BinaryExpressionType ==
    Enum(<< Variant("Plus", "BinaryExpressionType::Plus"),
            Variant("Sub", "BinaryExpressionType::Sub"),
            Variant("Mult", "BinaryExpressionType::Mult"),
            Variant("LeftShift", "BinaryExpressionType::LeftShift"),
            Variant("RightShift", "BinaryExpressionType::RightShift"),
            Variant("And", "BinaryExpressionType::And"),
            Variant("Or", "BinaryExpressionType::Or"),
            Variant("Xor", "BinaryExpressionType::Xor"),
            Variant("Div", "BinaryExpressionType::Div") >>)

UnaryExpressionType ==
    Enum(<< Variant("Minus", "UnaryExpressionType::Minus"),
            Variant("Not", "UnaryExpressionType::Not") >>)

PatternExpressionType ==
    Enum(<< Variant("PatternValue", "PatternValueType"),
            Variant("BinaryExpression", "BinaryExpressionType"),
            Variant("UnaryExpression", "UnaryExpressionType") >>)

OperandSymbol ==
    Struct(<< Leaf("<operand_sym"),
              Sub("SymbolHeader", "header", "one"),
              OptHex("subsym", "subsym"),
              Dec("off", "off"),
              Dec("base", "base"),
              Dec("minlen", "minlen"),
              Attr("code", "word", "word", "parse_bool", "code", "opt"),
              Dec("index", "index"),
              Leaf(">"),
              Sub("OperandValue", "localexp", "one"),
              Sub("PatternExpressionType", "defexp", "opt"),
              Leaf("</operand_sym>") >>)

ConstructorOperand ==
    Struct(<< Leaf("<oper"), Hex("id", "id"), Leaf("/>") >>)

OperandPrint ==
    Struct(<< Leaf("<opprint"), Dec("id", "id"), Leaf("/>") >>)

\* struct Print
PrintPiece ==
    Struct(<< Leaf("<print"),
              Attr("piece", "str0", "str0", "xml_unescape", "piece", "one"),
              Leaf("/>") >>)

\* print pieces that are print elements only
PrintPieceType_print_only ==
    Enum(<< Variant("Print", "Print") >>)

PrintPieceType ==
    Enum(<< Variant("Operand", "OperandPrint"), Variant("Print", "Print") >>)

Operation ==
    Struct(<< Leaf("<context_op"),
              Dec("i", "i"),
              Dec("shift", "shift"),
              Hex("mask", "mask"),
              Leaf(">"),
              Sub("PatternExpressionType", "patexp", "one"),
              Leaf("</context_op>") >>)

Commit ==
    Struct(<< Leaf("<commit"),
              Hex("id", "id"),
              Dec("num", "num"),
              Hex("mask", "mask"),
              Bool("flow", "flow"),
              Leaf("/>") >>)

ContextChangeType ==
    Enum(<< Variant("Operation", "Operation"), Variant("Commit", "Commit") >>)

ConstantTemplateSelector ==
    Enum(<< Variant("Space", "ConstantTemplateSelector::Space"),
            Variant("Offset", "ConstantTemplateSelector::Offset"),
            Variant("Size", "ConstantTemplateSelector::Size"),
            Variant("OffsetPlus", "ConstantTemplateSelector::OffsetPlus") >>)

ConstantTemplateType ==
    Enum(<< Variant("Real", "ConstantTemplateType::Real"),
            Variant("Handle", "ConstantTemplateType::Handle"),
            Variant("Start", "ConstantTemplateType::Start"),
            Variant("End", "ConstantTemplateType::End"),
            Variant("Next", "ConstantTemplateType::Next"),
            Variant("Next2", "ConstantTemplateType::Next2"),
            Variant("CurSpace", "ConstantTemplateType::CurSpace"),
            Variant("CurSpaceSize", "ConstantTemplateType::CurSpaceSize"),
            Variant("SpaceId", "ConstantTemplateType::SpaceId"),
            Variant("JumpRelative", "ConstantTemplateType::JumpRelative"),
            Variant("FlowRef", "ConstantTemplateType::FlowRef"),
            Variant("FlowDest", "ConstantTemplateType::FlowDest"),
            Variant("FlowDestSize", "ConstantTemplateType::FlowDestSize") >>)

\* a Handle whose plus is no Option
ConstantTemplateType_Handle_plus_required ==
    Struct(<< Leaf("<const_tpl type=\"handle\""), Dec("val", "val"),
              Sub("ConstantTemplateSelector", "selector", "one"),
              Hex("plus", "plus"), Leaf("/>") >>)

\* the fields of the variant Handle
ConstantTemplateType_Handle ==
    Struct(<< Leaf("<const_tpl type=\"handle\""), Dec("val", "val"),
              Sub("ConstantTemplateSelector", "selector", "one"),
              OptHex("plus", "plus"), Leaf("/>") >>)

HandleTemplate ==
    Struct(<< Leaf("<handle_tpl>"),
              Sub("ConstantTemplateType", "space", "one"),
              Sub("ConstantTemplateType", "size", "one"),
              Sub("ConstantTemplateType", "ptrspace", "one"),
              Sub("ConstantTemplateType", "ptroffset", "one"),
              Sub("ConstantTemplateType", "ptrsize", "one"),
              Sub("ConstantTemplateType", "temp_space", "one"),
              Sub("ConstantTemplateType", "temp_offset", "one"),
              Leaf("</handle_tpl>") >>)

VarNodeTemplate ==
    Struct(<< Leaf("<varnode_tpl>"),
              Sub("ConstantTemplateType", "space", "one"),
              Sub("ConstantTemplateType", "offset", "one"),
              Sub("ConstantTemplateType", "size", "one"),
              Leaf("</varnode_tpl>") >>)

\* the variants of OperationCode in declaration order: the name of the
\* variant, the rule of its leaf, the literal of its pattern and the
\* characters of that literal
OperationCodes ==
    <<
       [variant |-> "Blank", rule |-> "OperationCode::Blank", pattern |-> "BLANK",
        chars |-> <<"B", "L", "A", "N", "K">>],
       [variant |-> "Copy", rule |-> "OperationCode::Copy", pattern |-> "COPY",
        chars |-> <<"C", "O", "P", "Y">>],
       [variant |-> "Load", rule |-> "OperationCode::Load", pattern |-> "LOAD",
        chars |-> <<"L", "O", "A", "D">>],
       [variant |-> "Store", rule |-> "OperationCode::Store", pattern |-> "STORE",
        chars |-> <<"S", "T", "O", "R", "E">>],
       [variant |-> "Branch", rule |-> "OperationCode::Branch", pattern |-> "BRANCH",
        chars |-> <<"B", "R", "A", "N", "C", "H">>],
       [variant |-> "ConditionalBranch", rule |-> "OperationCode::ConditionalBranch", pattern |-> "CBRANCH",
        chars |-> <<"C", "B", "R", "A", "N", "C", "H">>],
       [variant |-> "BranchIndirect", rule |-> "OperationCode::BranchIndirect", pattern |-> "BRANCHIND",
        chars |-> <<"B", "R", "A", "N", "C", "H", "I", "N", "D">>],
       [variant |-> "Call", rule |-> "OperationCode::Call", pattern |-> "CALL",
        chars |-> <<"C", "A", "L", "L">>],
       [variant |-> "CallIndirect", rule |-> "OperationCode::CallIndirect", pattern |-> "CALLIND",
        chars |-> <<"C", "A", "L", "L", "I", "N", "D">>],
       [variant |-> "CallOther", rule |-> "OperationCode::CallOther", pattern |-> "CALLOTHER",
        chars |-> <<"C", "A", "L", "L", "O", "T", "H", "E", "R">>],
       [variant |-> "Return", rule |-> "OperationCode::Return", pattern |-> "RETURN",
        chars |-> <<"R", "E", "T", "U", "R", "N">>],
       [variant |-> "IntegerEqual", rule |-> "OperationCode::IntegerEqual", pattern |-> "INT_EQUAL",
        chars |-> <<"I", "N", "T", "_", "E", "Q", "U", "A", "L">>],
       [variant |-> "IntegerNotEqual", rule |-> "OperationCode::IntegerNotEqual", pattern |-> "INT_NOTEQUAL",
        chars |-> <<"I", "N", "T", "_", "N", "O", "T", "E", "Q", "U", "A", "L">>],
       [variant |-> "IntegerSignedLessThan", rule |-> "OperationCode::IntegerSignedLessThan", pattern |-> "INT_SLESS",
        chars |-> <<"I", "N", "T", "_", "S", "L", "E", "S", "S">>],
       [variant |-> "IntegerSignedLessThanOrEqual", rule |-> "OperationCode::IntegerSignedLessThanOrEqual", pattern |-> "INT_SLESSEQUAL",
        chars |-> <<"I", "N", "T", "_", "S", "L", "E", "S", "S", "E", "Q", "U", "A", "L">>],
       [variant |-> "IntegerUnsignedLessThan", rule |-> "OperationCode::IntegerUnsignedLessThan", pattern |-> "INT_LESS",
        chars |-> <<"I", "N", "T", "_", "L", "E", "S", "S">>],
       [variant |-> "IntegerUnsignedLessThanOrEqual", rule |-> "OperationCode::IntegerUnsignedLessThanOrEqual", pattern |-> "INT_LESSEQUAL",
        chars |-> <<"I", "N", "T", "_", "L", "E", "S", "S", "E", "Q", "U", "A", "L">>],
       [variant |-> "IntegerZeroExtend", rule |-> "OperationCode::IntegerZeroExtend", pattern |-> "INT_ZEXT",
        chars |-> <<"I", "N", "T", "_", "Z", "E", "X", "T">>],
       [variant |-> "IntegerSignExtend", rule |-> "OperationCode::IntegerSignExtend", pattern |-> "INT_SEXT",
        chars |-> <<"I", "N", "T", "_", "S", "E", "X", "T">>],
       [variant |-> "IntegerAdd", rule |-> "OperationCode::IntegerAdd", pattern |-> "INT_ADD",
        chars |-> <<"I", "N", "T", "_", "A", "D", "D">>],
       [variant |-> "IntegerSubtract", rule |-> "OperationCode::IntegerSubtract", pattern |-> "INT_SUB",
        chars |-> <<"I", "N", "T", "_", "S", "U", "B">>],
       [variant |-> "IntegerCarry", rule |-> "OperationCode::IntegerCarry", pattern |-> "INT_CARRY",
        chars |-> <<"I", "N", "T", "_", "C", "A", "R", "R", "Y">>],
       [variant |-> "IntegerSignedCarry", rule |-> "OperationCode::IntegerSignedCarry", pattern |-> "INT_SCARRY",
        chars |-> <<"I", "N", "T", "_", "S", "C", "A", "R", "R", "Y">>],
       [variant |-> "IntegerSignedBorrow", rule |-> "OperationCode::IntegerSignedBorrow", pattern |-> "INT_SBORROW",
        chars |-> <<"I", "N", "T", "_", "S", "B", "O", "R", "R", "O", "W">>],
       [variant |-> "IntegerTwosCompliment", rule |-> "OperationCode::IntegerTwosCompliment", pattern |-> "INT_2COMP",
        chars |-> <<"I", "N", "T", "_", "2", "C", "O", "M", "P">>],
       [variant |-> "IntegerNegate", rule |-> "OperationCode::IntegerNegate", pattern |-> "INT_NEGATE",
        chars |-> <<"I", "N", "T", "_", "N", "E", "G", "A", "T", "E">>],
       [variant |-> "IntegerXor", rule |-> "OperationCode::IntegerXor", pattern |-> "INT_XOR",
        chars |-> <<"I", "N", "T", "_", "X", "O", "R">>],
       [variant |-> "IntegerAnd", rule |-> "OperationCode::IntegerAnd", pattern |-> "INT_AND",
        chars |-> <<"I", "N", "T", "_", "A", "N", "D">>],
       [variant |-> "IntegerOr", rule |-> "OperationCode::IntegerOr", pattern |-> "INT_OR",
        chars |-> <<"I", "N", "T", "_", "O", "R">>],
       [variant |-> "IntegerLeftShift", rule |-> "OperationCode::IntegerLeftShift", pattern |-> "INT_LEFT",
        chars |-> <<"I", "N", "T", "_", "L", "E", "F", "T">>],
       [variant |-> "IntegerRightShift", rule |-> "OperationCode::IntegerRightShift", pattern |-> "INT_RIGHT",
        chars |-> <<"I", "N", "T", "_", "R", "I", "G", "H", "T">>],
       [variant |-> "IntegerSignedRightShift", rule |-> "OperationCode::IntegerSignedRightShift", pattern |-> "INT_SRIGHT",
        chars |-> <<"I", "N", "T", "_", "S", "R", "I", "G", "H", "T">>],
       [variant |-> "IntegerMultiply", rule |-> "OperationCode::IntegerMultiply", pattern |-> "INT_MULT",
        chars |-> <<"I", "N", "T", "_", "M", "U", "L", "T">>],
       [variant |-> "IntegerDivide", rule |-> "OperationCode::IntegerDivide", pattern |-> "INT_DIV",
        chars |-> <<"I", "N", "T", "_", "D", "I", "V">>],
       [variant |-> "IntegerSignedDivide", rule |-> "OperationCode::IntegerSignedDivide", pattern |-> "INT_SDIV",
        chars |-> <<"I", "N", "T", "_", "S", "D", "I", "V">>],
       [variant |-> "IntegerRemainder", rule |-> "OperationCode::IntegerRemainder", pattern |-> "INT_REM",
        chars |-> <<"I", "N", "T", "_", "R", "E", "M">>],
       [variant |-> "IntegerSignedRemainder", rule |-> "OperationCode::IntegerSignedRemainder", pattern |-> "INT_SREM",
        chars |-> <<"I", "N", "T", "_", "S", "R", "E", "M">>],
       [variant |-> "BooleanNegate", rule |-> "OperationCode::BooleanNegate", pattern |-> "BOOL_NEGATE",
        chars |-> <<"B", "O", "O", "L", "_", "N", "E", "G", "A", "T", "E">>],
       [variant |-> "BooleanXor", rule |-> "OperationCode::BooleanXor", pattern |-> "BOOL_XOR",
        chars |-> <<"B", "O", "O", "L", "_", "X", "O", "R">>],
       [variant |-> "BooleanAnd", rule |-> "OperationCode::BooleanAnd", pattern |-> "BOOL_AND",
        chars |-> <<"B", "O", "O", "L", "_", "A", "N", "D">>],
       [variant |-> "BooleanOr", rule |-> "OperationCode::BooleanOr", pattern |-> "BOOL_OR",
        chars |-> <<"B", "O", "O", "L", "_", "O", "R">>],
       [variant |-> "FloatEqual", rule |-> "OperationCode::FloatEqual", pattern |-> "FLOAT_EQUAL",
        chars |-> <<"F", "L", "O", "A", "T", "_", "E", "Q", "U", "A", "L">>],
       [variant |-> "FloatNotEqual", rule |-> "OperationCode::FloatNotEqual", pattern |-> "FLOAT_NOTEQUAL",
        chars |-> <<"F", "L", "O", "A", "T", "_", "N", "O", "T", "E", "Q", "U", "A", "L">>],
       [variant |-> "FloatLessThan", rule |-> "OperationCode::FloatLessThan", pattern |-> "FLOAT_LESS",
        chars |-> <<"F", "L", "O", "A", "T", "_", "L", "E", "S", "S">>],
       [variant |-> "FloatLessThanOrEqual", rule |-> "OperationCode::FloatLessThanOrEqual", pattern |-> "FLOAT_LESSEQUAL",
        chars |-> <<"F", "L", "O", "A", "T", "_", "L", "E", "S", "S", "E", "Q", "U", "A", "L">>],
       [variant |-> "Unused1", rule |-> "OperationCode::Unused1", pattern |-> "UNUSED1",
        chars |-> <<"U", "N", "U", "S", "E", "D", "1">>],
       [variant |-> "FloatNotANumber", rule |-> "OperationCode::FloatNotANumber", pattern |-> "FLOAT_NAN",
        chars |-> <<"F", "L", "O", "A", "T", "_", "N", "A", "N">>],
       [variant |-> "FloatAdd", rule |-> "OperationCode::FloatAdd", pattern |-> "FLOAT_ADD",
        chars |-> <<"F", "L", "O", "A", "T", "_", "A", "D", "D">>],
       [variant |-> "FloatDivide", rule |-> "OperationCode::FloatDivide", pattern |-> "FLOAT_DIV",
        chars |-> <<"F", "L", "O", "A", "T", "_", "D", "I", "V">>],
       [variant |-> "FloatMultiply", rule |-> "OperationCode::FloatMultiply", pattern |-> "FLOAT_MULT",
        chars |-> <<"F", "L", "O", "A", "T", "_", "M", "U", "L", "T">>],
       [variant |-> "FloatSubtract", rule |-> "OperationCode::FloatSubtract", pattern |-> "FLOAT_SUB",
        chars |-> <<"F", "L", "O", "A", "T", "_", "S", "U", "B">>],
       [variant |-> "FloatNegate", rule |-> "OperationCode::FloatNegate", pattern |-> "FLOAT_NEG",
        chars |-> <<"F", "L", "O", "A", "T", "_", "N", "E", "G">>],
       [variant |-> "FloatAbsoluteValue", rule |-> "OperationCode::FloatAbsoluteValue", pattern |-> "FLOAT_ABS",
        chars |-> <<"F", "L", "O", "A", "T", "_", "A", "B", "S">>],
       [variant |-> "FloatSquareRoot", rule |-> "OperationCode::FloatSquareRoot", pattern |-> "FLOAT_SQRT",
        chars |-> <<"F", "L", "O", "A", "T", "_", "S", "Q", "R", "T">>],
       [variant |-> "IntegerToFloat", rule |-> "OperationCode::IntegerToFloat", pattern |-> "INT2FLOAT",
        chars |-> <<"I", "N", "T", "2", "F", "L", "O", "A", "T">>],
       [variant |-> "FloatToFloat", rule |-> "OperationCode::FloatToFloat", pattern |-> "FLOAT2FLOAT",
        chars |-> <<"F", "L", "O", "A", "T", "2", "F", "L", "O", "A", "T">>],
       [variant |-> "Truncate", rule |-> "OperationCode::Truncate", pattern |-> "TRUNC",
        chars |-> <<"T", "R", "U", "N", "C">>],
       [variant |-> "Ceiling", rule |-> "OperationCode::Ceiling", pattern |-> "CEIL",
        chars |-> <<"C", "E", "I", "L">>],
       [variant |-> "Floor", rule |-> "OperationCode::Floor", pattern |-> "FLOOR",
        chars |-> <<"F", "L", "O", "O", "R">>],
       [variant |-> "Round", rule |-> "OperationCode::Round", pattern |-> "ROUND",
        chars |-> <<"R", "O", "U", "N", "D">>],
       [variant |-> "Build", rule |-> "OperationCode::Build", pattern |-> "BUILD",
        chars |-> <<"B", "U", "I", "L", "D">>],
       [variant |-> "DelaySlot", rule |-> "OperationCode::DelaySlot", pattern |-> "DELAY_SLOT",
        chars |-> <<"D", "E", "L", "A", "Y", "_", "S", "L", "O", "T">>],
       [variant |-> "Piece", rule |-> "OperationCode::Piece", pattern |-> "PIECE",
        chars |-> <<"P", "I", "E", "C", "E">>],
       [variant |-> "Subpiece", rule |-> "OperationCode::Subpiece", pattern |-> "SUBPIECE",
        chars |-> <<"S", "U", "B", "P", "I", "E", "C", "E">>],
       [variant |-> "Cast", rule |-> "OperationCode::Cast", pattern |-> "CAST",
        chars |-> <<"C", "A", "S", "T">>],
       [variant |-> "Label", rule |-> "OperationCode::Label", pattern |-> "LABEL",
        chars |-> <<"L", "A", "B", "E", "L">>],
       [variant |-> "CrossBuild", rule |-> "OperationCode::CrossBuild", pattern |-> "CROSSBUILD",
        chars |-> <<"C", "R", "O", "S", "S", "B", "U", "I", "L", "D">>],
       [variant |-> "SegmentOp", rule |-> "OperationCode::SegmentOp", pattern |-> "SEGMENTOP",
        chars |-> <<"S", "E", "G", "M", "E", "N", "T", "O", "P">>],
       [variant |-> "CpoolRef", rule |-> "OperationCode::CpoolRef", pattern |-> "CPOOLREF",
        chars |-> <<"C", "P", "O", "O", "L", "R", "E", "F">>],
       [variant |-> "New", rule |-> "OperationCode::New", pattern |-> "NEW",
        chars |-> <<"N", "E", "W">>],
       [variant |-> "Insert", rule |-> "OperationCode::Insert", pattern |-> "INSERT",
        chars |-> <<"I", "N", "S", "E", "R", "T">>],
       [variant |-> "Extract", rule |-> "OperationCode::Extract", pattern |-> "EXTRACT",
        chars |-> <<"E", "X", "T", "R", "A", "C", "T">>],
       [variant |-> "PopCount", rule |-> "OperationCode::PopCount", pattern |-> "POPCOUNT",
        chars |-> <<"P", "O", "P", "C", "O", "U", "N", "T">>],
       [variant |-> "LzCount", rule |-> "OperationCode::LzCount", pattern |-> "LZCOUNT",
        chars |-> <<"L", "Z", "C", "O", "U", "N", "T">>]
    >>

OperationCodeRules == {OperationCodes[i].rule : i \in 1..Len(OperationCodes)}

OperationCode ==
    Enum([i \in 1..Len(OperationCodes) |->
            Variant(OperationCodes[i].variant, OperationCodes[i].rule)])

\* an output designator that is `<null/>` only
OperationTemplateOutput_null_only ==
    Enum(<< Variant("Null", "OperationTemplateOutput::Null") >>)

OperationTemplateOutput ==
    Enum(<< Variant("Null", "OperationTemplateOutput::Null"),
            Variant("Output", "VarNodeTemplate") >>)

OperationTemplate ==
    Struct(<< Leaf("<op_tpl"),
              Leaf("code=\""),
              Sub("OperationCode", "code", "one"),
              Leaf("\">"),
              Sub("OperationTemplateOutput", "output", "one"),
              Sub("VarNodeTemplate", "input", "vec"),
              Leaf("</op_tpl>") >>)

ConstructorTemplateResult ==
    Enum(<< Variant("Null", "ConstructorTemplateResult::Null"),
            Variant("Result", "HandleTemplate") >>)

ConstructorTemplate ==
    Struct(<< Leaf("<construct_tpl"),
              OptDec("section", "section"),
              OptDec("delay", "delay"),
              OptDec("labels", "numlabels"),
              Leaf(">"),
              Sub("ConstructorTemplateResult", "result", "one"),
              Sub("OperationTemplate", "vec", "vec"),
              Leaf("</construct_tpl>") >>)

\* a constructor whose context changes precede its print pieces
Constructor_contexts_first ==
    Struct(<< Leaf("<constructor"),
              Hex("parent", "parent"),
              Dec("first", "first"),
              Dec("length", "length"),
              Attr("line", "decpair", "decpair", "parse_Integer_pair", "line", "one"),
              Leaf(">"),
              Sub("ConstructorOperand", "operands", "vec"),
              Sub("ContextChangeType", "contexts", "vec"),
              Sub("PrintPieceType", "printpiece", "vec"),
              Sub("ConstructorTemplate", "templ", "opt"),
              Sub("ConstructorTemplate", "namedtempl", "vec"),
              Leaf("</constructor>") >>)

\* prec_left(1): a construct_tpl that can be `templ` or the first of
\* `namedtempl` is `templ`
Constructor ==
    Struct(<< Leaf("<constructor"),
              Hex("parent", "parent"),
              Dec("first", "first"),
              Dec("length", "length"),
              Attr("line", "decpair", "decpair", "parse_Integer_pair", "line", "one"),
              Leaf(">"),
              Sub("ConstructorOperand", "operands", "vec"),
              Sub("PrintPieceType", "printpiece", "vec"),
              Sub("ContextChangeType", "contexts", "vec"),
              Sub("ConstructorTemplate", "templ", "opt"),
              Sub("ConstructorTemplate", "namedtempl", "vec"),
              Leaf("</constructor>") >>)

PatternBlockWord ==
    Struct(<< Leaf("<mask_word"), Hex("mask", "mask"), Hex("val", "val"), Leaf("/>") >>)

PatternBlock ==
    Struct(<< Leaf("<pat_block"),
              Dec("offset", "offset"),
              Dec("nonzero", "nonzero"),
              Leaf(">"),
              Sub("PatternBlockWord", "mask_vals", "vec"),
              Leaf("</pat_block>") >>)

InstructionPattern ==
    Struct(<< Leaf("<instruct_pat>"),
              Sub("PatternBlock", "mask_value", "one"),
              Leaf("</instruct_pat>") >>)

ContextPattern ==
    Struct(<< Leaf("<context_pat>"),
              Sub("PatternBlock", "mask_value", "one"),
              Leaf("</context_pat>") >>)

CombinePattern ==
    Struct(<< Leaf("<combine_pat>"),
              Sub("ContextPattern", "context", "one"),
              Sub("InstructionPattern", "instr", "one"),
              Leaf("</combine_pat>") >>)

DisjointPatternType ==
    Enum(<< Variant("Instruction", "InstructionPattern"),
            Variant("Context", "ContextPattern"),
            Variant("Combine", "CombinePattern") >>)

DecisionNodePair ==
    Struct(<< Leaf("<pair"),
              Dec("id", "id"),
              Leaf(">"),
              Sub("DisjointPatternType", "pattern", "one"),
              Leaf("</pair>") >>)

\* a decision element whose nested decision elements precede its pairs
DecisionNode_children_first ==
    Struct(<< Leaf("<decision"),
              Dec("number", "number"),
              Bool("context", "context"),
              Dec("start", "start"),
              Dec("size", "bitsize"),
              Leaf(">"),
              Sub("DecisionNode", "children", "vec"),
              Sub("DecisionNodePair", "pairs", "vec"),
              Leaf("</decision>") >>)

DecisionNode ==
    Struct(<< Leaf("<decision"),
              Dec("number", "number"),
              Bool("context", "context"),
              Dec("start", "start"),
              Dec("size", "bitsize"),
              Leaf(">"),
              Sub("DecisionNodePair", "pairs", "vec"),
              Sub("DecisionNode", "children", "vec"),
              Leaf("</decision>") >>)

SubtableSymbol ==
    Struct(<< Sub("SymbolHeader", "header", "one"),
              Dec("numct", "numct"),
              Leaf(">"),
              Sub("Constructor", "constructors", "vec"),
              Sub("DecisionNode", "decisiontree", "one") >>)

\* SleighSymbolType and, under TripleSymbol, the enums it nests; of the
\* symbols the user-op, name, value, operand, start and subtable symbols
\* are modelled
SleighSymbolType ==
    Enum(<< Variant("UserOpSymbol", "SleighSymbolType::UserOpSymbol"),
            Variant("NameSymbol", "NameSymbol"),
            Variant("ValueSymbol", "ValueSymbol"),
            Variant("OperandSymbol", "OperandSymbol"),
            Variant("StartSymbol", "StartSymbol"),
            Variant("SubtableSymbol", "TripleSymbol::SubtableSymbol") >>)

Rule(name) ==
    CASE name = "Sleigh" -> Sleigh
      [] name = "SourceFiles" -> SourceFiles
      [] name = "SourceFile" -> SourceFile
      [] name = "Spaces" -> Spaces
      [] name = "AddrSpace" -> AddrSpace
      [] name = "AddrSpaceType" -> AddrSpaceType
      [] name = "AddrSpaceType::Base" -> Wrapped("<space_base", "AddrSpace", "space", "/>")
      [] name = "AddrSpaceType::Unique" -> Wrapped("<space_unique", "AddrSpace", "space", "/>")
      [] name = "AddrSpaceType::Other" -> Wrapped("<space_other", "AddrSpace", "space", "/>")
      [] name = "AddrSpaceType::Overlay" -> Wrapped("<space_overlay", "AddrSpace", "space", "/>")
      [] name = "AddrSpaceType::Space" -> Wrapped("<space", "AddrSpace", "space", "/>")
      [] name = "SymbolTable" -> SymbolTable
      [] name = "Scope" -> Scope
      [] name = "SymbolHeader" -> SymbolHeader
      [] name = "SymbolHeaderType" -> SymbolHeaderType
      [] name = "SymbolHeaderType::UserOp" -> Wrapped("<userop_head", "SymbolHeader", "header", "/>")
      [] name = "SymbolHeaderType::Value" -> Wrapped("<value_sym_head", "SymbolHeader", "header", "/>")
      [] name = "SymbolHeaderType::Operand" -> Wrapped("<operand_sym_head", "SymbolHeader", "header", "/>")
      [] name = "SymbolHeaderType::Start" -> Wrapped("<start_sym_head", "SymbolHeader", "header", "/>")
      [] name = "TokenField" -> TokenField
      [] name = "ContextField" -> ContextField
      [] name = "ConstantValue" -> ConstantValue
      [] name = "OperandValue" -> OperandValue
      [] name = "PatternValueType" -> PatternValueType
      [] name = "PatternValueType::StartInstructionValue" -> Struct(<<Leaf("<start_exp/>")>>)
      [] name = "PatternValueType::EndInstructionValue" -> Struct(<<Leaf("<end_exp/>")>>)
      [] name = "PatternValueType::Next2InstructionValue" -> Struct(<<Leaf("<next2_exp/>")>>)
      [] name = "UserOpSymbol" -> UserOpSymbol
      [] name = "SleighSymbolType::UserOpSymbol" -> Wrapped("<userop", "UserOpSymbol", "user_op", "/>")
      [] name = "ValueSymbol" -> ValueSymbol
      [] name = "NameSymbol" -> NameSymbol
      [] name = "NameTableValue" -> NameTableValue
      [] name = "StartSymbol" -> StartSymbol
      [] name = "SleighSymbolType" -> SleighSymbolType
      [] name = "OperandSymbol" -> OperandSymbol
      [] name = "PatternExpressionType" -> PatternExpressionType
      [] name = "BinaryExpressionType" -> BinaryExpressionType
      [] name = "BinaryExpressionType::Plus" -> Binary("<plus_exp>", "</plus_exp>")
      [] name = "BinaryExpressionType::Sub" -> Binary("<sub_exp>", "</sub_exp>")
      [] name = "BinaryExpressionType::Mult" -> Binary("<mult_exp>", "</mult_exp>")
      [] name = "BinaryExpressionType::LeftShift" -> Binary("<lshift_exp>", "</lshift_exp>")
      [] name = "BinaryExpressionType::RightShift" -> Binary("<rshift_exp>", "</rshift_exp>")
      [] name = "BinaryExpressionType::And" -> Binary("<and_exp>", "</and_exp>")
      [] name = "BinaryExpressionType::Or" -> Binary("<or_exp>", "</or_exp>")
      [] name = "BinaryExpressionType::Xor" -> Binary("<xor_exp>", "</xor_exp>")
      [] name = "BinaryExpressionType::Div" -> Binary("<div_exp>", "</div_exp>")
      [] name = "UnaryExpressionType" -> UnaryExpressionType
      [] name = "UnaryExpressionType::Minus" -> Unary("<minus_exp>", "</minus_exp>")
      [] name = "UnaryExpressionType::Not" -> Unary("<not_exp>", "</not_exp>")
      [] name = "ConstructorOperand" -> ConstructorOperand
      [] name = "OperandPrint" -> OperandPrint
      [] name = "Print" -> PrintPiece
      [] name = "PrintPieceType" -> PrintPieceType
      [] name = "Operation" -> Operation
      [] name = "Commit" -> Commit
      [] name = "ContextChangeType" -> ContextChangeType
      [] name = "ConstantTemplateSelector" -> ConstantTemplateSelector
      [] name = "ConstantTemplateSelector::Space" -> Struct(<<Leaf("s=\"space\"")>>)
      [] name = "ConstantTemplateSelector::Offset" -> Struct(<<Leaf("s=\"offset\"")>>)
      [] name = "ConstantTemplateSelector::Size" -> Struct(<<Leaf("s=\"size\"")>>)
      [] name = "ConstantTemplateSelector::OffsetPlus" -> Struct(<<Leaf("s=\"offset_plus\"")>>)
      [] name = "ConstantTemplateType" -> ConstantTemplateType
      [] name = "ConstantTemplateType::Real" ->
            Struct(<<Leaf("<const_tpl type=\"real\""), Hex("val", "val"), Leaf("/>")>>)
      [] name = "ConstantTemplateType::Handle" -> ConstantTemplateType_Handle
      [] name = "ConstantTemplateType::SpaceId" ->
            Struct(<< Leaf("<const_tpl type=\"spaceid\""),
                      Attr("name", "str0", "str0", "xml_unescape", "name", "one"), Leaf("/>") >>)
      [] name = "ConstantTemplateType::JumpRelative" ->
            Struct(<<Leaf("<const_tpl type=\"relative\""), Hex("val", "val"), Leaf("/>")>>)
      [] name = "ConstantTemplateType::Start" -> Struct(<<Leaf("<const_tpl type=\"start\"/>")>>)
      [] name = "ConstantTemplateType::End" -> Struct(<<Leaf("<const_tpl type=\"end\"/>")>>)
      [] name = "ConstantTemplateType::Next" -> Struct(<<Leaf("<const_tpl type=\"next\"/>")>>)
      [] name = "ConstantTemplateType::Next2" -> Struct(<<Leaf("<const_tpl type=\"next2\"/>")>>)
      [] name = "ConstantTemplateType::CurSpace" -> Struct(<<Leaf("<const_tpl type=\"curspace\"/>")>>)
      [] name = "ConstantTemplateType::CurSpaceSize" -> Struct(<<Leaf("<const_tpl type=\"curspace_size\"/>")>>)
      [] name = "ConstantTemplateType::FlowRef" -> Struct(<<Leaf("<const_tpl type=\"flowref\"/>")>>)
      [] name = "ConstantTemplateType::FlowDest" -> Struct(<<Leaf("<const_tpl type=\"flowdest\"/>")>>)
      [] name = "ConstantTemplateType::FlowDestSize" -> Struct(<<Leaf("<const_tpl type=\"flowdest_size\"/>")>>)
      [] name = "HandleTemplate" -> HandleTemplate
      [] name = "VarNodeTemplate" -> VarNodeTemplate
      [] name = "OperationCode" -> OperationCode
      [] name \in OperationCodeRules ->
            Struct(<<Leaf(OperationCodes[CHOOSE i \in 1..Len(OperationCodes) :
                                            OperationCodes[i].rule = name].pattern)>>)
      [] name = "OperationTemplateOutput" -> OperationTemplateOutput
      [] name = "OperationTemplateOutput::Null" -> Struct(<<Leaf("<null/>")>>)
      [] name = "OperationTemplate" -> OperationTemplate
      [] name = "ConstructorTemplateResult" -> ConstructorTemplateResult
      [] name = "ConstructorTemplateResult::Null" -> Struct(<<Leaf("<null/>")>>)
      [] name = "ConstructorTemplate" -> ConstructorTemplate
      [] name = "Constructor" -> Constructor
      [] name = "PatternBlockWord" -> PatternBlockWord
      [] name = "PatternBlock" -> PatternBlock
      [] name = "InstructionPattern" -> InstructionPattern
      [] name = "ContextPattern" -> ContextPattern
      [] name = "CombinePattern" -> CombinePattern
      [] name = "DisjointPatternType" -> DisjointPatternType
      [] name = "DecisionNodePair" -> DecisionNodePair
      [] name = "DecisionNode" -> DecisionNode
      [] name = "SubtableSymbol" -> SubtableSymbol
      [] name = "TripleSymbol::SubtableSymbol" ->
            Wrapped("<subtable_sym", "SubtableSymbol", "subtable", "</subtable_sym>")
      [] name = "SymbolHeaderType::SubTable" -> Wrapped("<subtable_sym_head", "SymbolHeader", "header", "/>")

\* the names of the rules
RuleNames ==
    { "Sleigh", "SourceFiles", "SourceFile", "Spaces", "AddrSpace", "AddrSpaceType",
      "AddrSpaceType::Base", "AddrSpaceType::Unique", "AddrSpaceType::Other",
      "AddrSpaceType::Overlay", "AddrSpaceType::Space", "SymbolTable", "Scope", "SymbolHeader",
      "SymbolHeaderType", "SymbolHeaderType::UserOp", "SymbolHeaderType::Value",
      "SymbolHeaderType::Operand", "SymbolHeaderType::Start", "TokenField", "ContextField",
      "ConstantValue", "OperandValue", "PatternValueType",
      "PatternValueType::StartInstructionValue", "PatternValueType::EndInstructionValue",
      "PatternValueType::Next2InstructionValue", "UserOpSymbol", "SleighSymbolType::UserOpSymbol",
      "ValueSymbol", "NameSymbol", "NameTableValue", "StartSymbol", "SleighSymbolType",
      "OperandSymbol", "PatternExpressionType",
      "BinaryExpressionType", "BinaryExpressionType::Plus", "BinaryExpressionType::Sub",
      "BinaryExpressionType::Mult", "BinaryExpressionType::LeftShift",
      "BinaryExpressionType::RightShift", "BinaryExpressionType::And", "BinaryExpressionType::Or",
      "BinaryExpressionType::Xor", "BinaryExpressionType::Div", "UnaryExpressionType",
      "UnaryExpressionType::Minus", "UnaryExpressionType::Not",
      "ConstructorOperand", "OperandPrint", "Print", "PrintPieceType", "Operation",
      "Commit", "ContextChangeType", "ConstantTemplateSelector",
      "ConstantTemplateSelector::Space", "ConstantTemplateSelector::Offset",
      "ConstantTemplateSelector::Size", "ConstantTemplateSelector::OffsetPlus",
      "ConstantTemplateType", "ConstantTemplateType::Real", "ConstantTemplateType::Handle",
      "ConstantTemplateType::SpaceId", "ConstantTemplateType::JumpRelative",
      "ConstantTemplateType::Start", "ConstantTemplateType::End",
      "ConstantTemplateType::Next", "ConstantTemplateType::Next2",
      "ConstantTemplateType::CurSpace", "ConstantTemplateType::CurSpaceSize",
      "ConstantTemplateType::FlowRef", "ConstantTemplateType::FlowDest",
      "ConstantTemplateType::FlowDestSize", "HandleTemplate", "VarNodeTemplate",
      "OperationCode", "OperationTemplateOutput", "OperationTemplateOutput::Null",
      "OperationTemplate", "ConstructorTemplateResult", "ConstructorTemplateResult::Null",
      "ConstructorTemplate", "Constructor", "PatternBlockWord", "PatternBlock",
      "InstructionPattern", "ContextPattern", "CombinePattern", "DisjointPatternType",
      "DecisionNodePair", "DecisionNode", "SubtableSymbol", "TripleSymbol::SubtableSymbol",
      "SymbolHeaderType::SubTable" }
        \cup OperationCodeRules

\* the grammar: the rule of each name
Rules == [n \in RuleNames |-> Rule(n)]

(***************************************************************************)
(* The generated parser.  A walk matches a token sequence against a rule   *)
(* of a grammar g and builds the value of the rule: ok tells whether the   *)
(* tokens match, pos is the token after the match (or the token that does  *)
(* not match), val the value built by the transforms, panic the message of *)
(* the first `expect` that fails while building it ("" when none does).    *)
(***************************************************************************)
FirstPanic(a, b) == IF a = "" THEN b ELSE a

\* a leaf transform: captures(v).expect(..).get(1).expect(..), then the
\* conversion of the captured text, each `expect` a possible panic
Transform(item, text) ==
    LET c == captures(item.re, text)
    IN  IF ~c.some THEN [panic |-> "No captures or no capture group", val |-> <<>>]
        ELSE CASE item.conv = "parse_Integer" ->
                    LET r == parse_Integer(c.val)
                    IN  IF r.some THEN [panic |-> "", val |-> r.val]
                        ELSE [panic |-> "Invalid integer", val |-> <<>>]
               [] item.conv = "from_string_base" ->
                    LET r == from_string_base(16, c.val)
                    IN  IF r.some THEN [panic |-> "", val |-> r.val]
                        ELSE [panic |-> "Invalid integer", val |-> <<>>]
               [] item.conv = "parse_Integer_pair" ->
                    LET line == parse_Integer(c.val[1])
                        col == parse_Integer(c.val[2])
                    IN  IF line.some /\ col.some THEN [panic |-> "", val |-> <<line.val, col.val>>]
                        ELSE [panic |-> "Invalid integer", val |-> <<>>]
               [] item.conv = "parse_bool" ->
                    LET r == parse_bool(c.val)
                    IN  IF r.some THEN [panic |-> "", val |-> r.val]
                        ELSE [panic |-> "Invalid boolean", val |-> <<>>]
               [] item.conv = "xml_unescape" ->
                    [panic |-> "", val |-> xml_unescape(c.val)]

RECURSIVE First(_, _)
\* the tokens the rule r of the grammar g can begin with
FirstOf(g, r) ==
    IF r.kind = "enum"
    THEN UNION {First(g, r.alts[i].rule) : i \in 1..Len(r.alts)}
    ELSE IF r.items[1].t = "sub" THEN First(g, r.items[1].name) ELSE {r.items[1].name}

First(g, name) == FirstOf(g, g[name])

Starts(g, name, toks, pos) == pos <= Len(toks) /\ toks[pos].name \in First(g, name)

(***************************************************************************)
(* The walk of the tokens: the fields of the structs in their order, one   *)
(* step for each, with the structs that are entered and not yet left on a  *)
(* stack.  A frame holds the struct, the next of its fields, the value of  *)
(* the fields so far, and where its value goes: the field of the struct    *)
(* below, that field's kind (one, Option, Vec; top for the first struct)   *)
(* and the variants of the enums it was chosen through, outermost first.   *)
(***************************************************************************)
\* the walk that failed at pos
Failed(pos) ==
    [stack |-> <<>>, pos |-> pos, val |-> <<>>, panic |-> "", uses |-> <<>>,
     ok |-> FALSE, done |-> TRUE]

\* the walk before its first step
Started(pos) ==
    [stack |-> <<>>, pos |-> pos, val |-> <<>>, panic |-> "", uses |-> <<>>,
     ok |-> TRUE, done |-> FALSE]

RECURSIVE Resolve(_, _, _, _, _)
\* the variants of an enum, of those in alts, that the token at pos begins
Begun(g, alts, toks, pos) == {i \in 1..Len(alts) : Starts(g, alts[i].rule, toks, pos)}

ResolveAlt(g, alt, toks, pos, variants) ==
    Resolve(g, alt.rule, toks, pos, Append(variants, alt.variant))

ResolveIn(g, r, name, begun, toks, pos, variants) ==
    IF r.kind = "struct" THEN [ok |-> TRUE, rule |-> name, variants |-> variants]
    ELSE IF begun = {} THEN [ok |-> FALSE, rule |-> name, variants |-> variants]
    ELSE ResolveAlt(g, r.alts[CHOOSE i \in begun : TRUE], toks, pos, variants)

\* the struct that a rule stands for at pos: the rule, or the variant of an
\* enum that the token at pos begins
Resolve(g, name, toks, pos, variants) ==
    ResolveIn(g, g[name], name, Begun(g, g[name].alts, toks, pos), toks, pos, variants)

\* the walk s with the struct t entered, its value due to field in kind mode
Entered(s, t, field, mode) ==
    IF t.ok
    THEN [s EXCEPT !.stack = Append(@, [rule |-> t.rule, idx |-> 1, val |-> <<>>, field |-> field,
                                        mode |-> mode, variants |-> t.variants])]
    ELSE Failed(s.pos)

Push(g, s, name, field, mode, toks) ==
    Entered(s, Resolve(g, name, toks, s.pos, <<>>), field, mode)

RECURSIVE AsVariant(_, _)
\* the value v as the variants of the enums it was chosen through
AsVariant(v, variants) ==
    IF variants = <<>> THEN v
    ELSE [variant |-> Head(variants), value |-> AsVariant(v, Tail(variants))]

\* the frame p with the value v of the frame f, which was entered from it
AfterSub(p, f, v) ==
    CASE f.mode = "one" -> [p EXCEPT !.val = @ @@ (f.field :> v), !.idx = @ + 1]
      [] f.mode = "opt" -> [p EXCEPT !.val = @ @@ (f.field :> Some(v)), !.idx = @ + 1]
      [] f.mode = "vec" -> [p EXCEPT !.val = [@ EXCEPT ![f.field] = Append(@, v)]]

\* the walk s after the last field of its top frame f
Left(s, f) ==
    IF f.mode = "top"
    THEN [s EXCEPT !.stack = <<>>, !.done = TRUE, !.val = AsVariant(f.val, f.variants)]
    ELSE [s EXCEPT !.stack = Append(SubSeq(@, 1, Len(@) - 2),
                                    AfterSub(@[Len(@) - 1], f, AsVariant(f.val, f.variants)))]

\* the top frame goes on to its next field, with the value v for field
Skip(s, field, v) ==
    [s EXCEPT !.stack[Len(s.stack)] = [@ EXCEPT !.val = @ @@ (field :> v), !.idx = @ + 1]]

\* the walk s after an attribute at s.pos whose transform gave tr; the
\* extraction runs the transforms in the order of the document, up to the
\* first that panics
AfterAttr(s, f, it, tr) ==
    [Skip(s, it.field, IF it.mode = "opt" THEN Some(tr.val) ELSE tr.val)
        EXCEPT !.pos = @ + 1,
               !.panic = FirstPanic(@, tr.panic),
               !.uses = IF s.panic = "" THEN Append(@, [owner |-> f.rule, field |-> it.field])
                        ELSE @]

Here(it, toks, pos) == pos <= Len(toks) /\ toks[pos].name = it.name

\* a field it of another annotated type: starts tells whether the token at
\* s.pos begins it, pushed is the walk with its struct entered
WalkSub(s, f, it, starts, pushed) ==
    CASE it.mode = "one" -> pushed
      [] it.mode = "opt" -> IF starts THEN pushed ELSE Skip(s, it.field, None)
      [] it.mode = "vec" ->
            IF it.field \notin DOMAIN f.val
            THEN [s EXCEPT !.stack[Len(s.stack)].val = @ @@ (it.field :> <<>>)]
            ELSE IF starts THEN pushed
            ELSE [s EXCEPT !.stack[Len(s.stack)].idx = @ + 1]

\* one field it of the struct of the top frame f
WalkItem(g, s, f, it, toks) ==
    CASE it.t = "leaf" ->
            IF Here(it, toks, s.pos)
            THEN [s EXCEPT !.pos = @ + 1, !.stack[Len(s.stack)].idx = @ + 1]
            ELSE Failed(s.pos)
      [] it.t = "attr" ->
            IF Here(it, toks, s.pos) /\ captures(it.pat, toks[s.pos].text).some
            THEN AfterAttr(s, f, it, Transform(it, toks[s.pos].text))
            ELSE IF it.mode = "opt" THEN Skip(s, it.field, None)
            ELSE Failed(s.pos)
      [] it.t = "sub" ->
            WalkSub(s, f, it, Starts(g, it.name, toks, s.pos),
                    Push(g, s, it.name, it.field, it.mode, toks))

\* one step of the walk: the next field of the top frame, or its end
WalkItems(g, s, f, items, toks) ==
    IF f.idx > Len(items) THEN Left(s, f) ELSE WalkItem(g, s, f, items[f.idx], toks)

Step(g, s, toks) ==
    WalkItems(g, s, s.stack[Len(s.stack)], g[s.stack[Len(s.stack)].rule].items, toks)

RECURSIVE Run(_, _, _, _)
\* 2^k steps of the walk s, or the steps up to its end
Run(g, k, s, toks) ==
    IF s.done THEN s
    ELSE IF k = 0 THEN Step(g, s, toks)
    ELSE Run(g, k - 1, Run(g, k - 1, s, toks), toks)

\* a number of steps that no walk of the tokens needs: 2^StepsFor
StepsFor(toks) ==
    CHOOSE k \in 4..30 : 2 ^ k >= 4 * Len(toks) + 16 /\ 2 ^ (k - 1) < 4 * Len(toks) + 16

\* the walk as a value: ok, the position after the rule (or of the token
\* that does not match), the value, the first panic and the transforms run
Walked(s) ==
    [ok |-> s.ok /\ s.done, pos |-> s.pos, val |-> s.val, panic |-> s.panic, uses |-> s.uses]

\* the walk of the rule in the grammar g
WalkIn(g, name, toks, pos) ==
    Walked(Run(g, StepsFor(toks), Push(g, Started(pos), name, "", "top", toks), toks))

WalkRule(name, toks, pos) == WalkIn(Rules, name, toks, pos)

(***************************************************************************)
(* parse: Err when the tokens are not a document of the grammar (nothing   *)
(* is extracted then), else the Document built by the transforms, unless   *)
(* one of them panics.                                                     *)
(***************************************************************************)
\* An outcome: Ok with the Document; Err with the position of the token that
\* does not match; Panic with the message of the `expect` that failed.  attr
\* and raw are the attribute name and raw text an outcome names: the errors
\* of the generated parser carry a reason and a position, the panics a fixed
\* message, so neither names any.
Ok(doc) == [kind |-> "Ok", doc |-> doc, at |-> 0, msg |-> "", attr |-> "", raw |-> <<>>]
Err(at) == [kind |-> "Err", doc |-> <<>>, at |-> at, msg |-> "", attr |-> "", raw |-> <<>>]
Panic(msg) == [kind |-> "Panic", doc |-> <<>>, at |-> 0, msg |-> msg, attr |-> "", raw |-> <<>>]
NoResult == [kind |-> "None", doc |-> <<>>, at |-> 0, msg |-> "", attr |-> "", raw |-> <<>>]

\* the tokens are exactly one Sleigh of the grammar
Whole(w, toks) == w.ok /\ w.pos = Len(toks) + 1

Accepts(toks) == Whole(WalkRule("Sleigh", toks, 1), toks)

\* the outcome of a call whose walk of the tokens is w
Outcome(w, toks) ==
    IF ~Whole(w, toks) THEN Err(w.pos)
    ELSE IF w.panic # "" THEN Panic(w.panic)
    ELSE Ok(w.val)

(***************************************************************************)
(* The lexer.  The text given to parse is a sequence of lexemes: a tag or  *)
(* an attribute as above, a run of whitespace between two of them (name    *)
(* " ", the run as its text), or a tag written with whitespace inside it,  *)
(* after its `<` (the tag's name, the whitespace as its text).  Whitespace *)
(* is an extra of the grammar, skipped wherever it stands between tokens;  *)
(* whitespace inside a tag is matched by the `\s*` of the tag's pattern,   *)
(* where the pattern has one.                                              *)
(***************************************************************************)
\* the names of the leaves without a capture group: the tags
LeavesOf(items) == {items[i].name : i \in {j \in 1..Len(items) : items[j].t = "leaf"}}
LeafNames == UNION {LeavesOf(Rules[n].items) : n \in RuleNames}

\* the tags whose pattern has no `\s*`: the root tag `<sleigh` and `>`, and
\* the opcode names
TightLeaves == {"<sleigh", ">"} \cup {OperationCodes[i].pattern : i \in 1..Len(OperationCodes)}

\* the characters of the class \s
WhitespaceChars == {" ", "\t", "\n", "\r"}

Whitespace(l) == l.name = " " /\ l.text # <<>> /\ AllIn(l.text, WhitespaceChars)

\* a lexer that takes whitespace between tokens for a token
lex_whitespace_token(raw) == raw

RECURSIVE SkipWhitespace(_)
SkipWhitespace(text) ==
    IF text # <<>> /\ Head(text) \in WhitespaceChars THEN SkipWhitespace(Tail(text)) ELSE text

\* no token: whitespace between tokens, and the second place of a piece of
\* text that is one token
Skipped == [name |-> "", text |-> <<>>]
IsToken(t) == t # Skipped

\* the opcode names a text begins with
Matching(text) == {i \in 1..Len(OperationCodes) : StartsWith(text, OperationCodes[i].chars)}

\* the lexer takes the longest of the tokens that match
longest_match(text) ==
    CHOOSE i \in Matching(text) :
        \A j \in Matching(text) : Len(OperationCodes[j].chars) <= Len(OperationCodes[i].chars)

\* the token after an opcode name: text that is left is no token
AfterOpcode(code, text) ==
    IF SkipWhitespace(SubSeq(text, Len(code.chars) + 1, Len(text))) = <<>>
    THEN <<Tag(code.pattern)>>
    ELSE <<Tag(code.pattern), Tag("<")>>

\* the tokens of the text between `code="` and the closing quote, where the
\* opcode names are the valid tokens
lex_opcode(text) ==
    IF text = <<>> THEN <<>>
    ELSE IF Matching(text) = {} THEN <<Tag("<")>>
    ELSE AfterOpcode(OperationCodes[longest_match(text)], text)

\* the tags of the variants of AddrSpaceType: the leaf pattern `<\s*name` of
\* each _start, by the characters of its name
SpaceTags ==
    << [pattern |-> "<space_base", chars |-> <<"s", "p", "a", "c", "e", "_", "b", "a", "s", "e">>],
       [pattern |-> "<space_unique", chars |-> <<"s", "p", "a", "c", "e", "_", "u", "n", "i", "q", "u", "e">>],
       [pattern |-> "<space_other", chars |-> <<"s", "p", "a", "c", "e", "_", "o", "t", "h", "e", "r">>],
       [pattern |-> "<space_overlay", chars |-> <<"s", "p", "a", "c", "e", "_", "o", "v", "e", "r", "l", "a", "y">>],
       [pattern |-> "<space", chars |-> <<"s", "p", "a", "c", "e">>] >>

\* the space tags a text (the characters after `<` and whitespace) begins with
MatchingTags(text) == {i \in 1..Len(SpaceTags) : StartsWith(text, SpaceTags[i].chars)}

\* a lexer that takes the shortest of the tags that match
shortest_tag(text) ==
    CHOOSE i \in MatchingTags(text) :
        \A j \in MatchingTags(text) : Len(SpaceTags[i].chars) <= Len(SpaceTags[j].chars)

\* the lexer takes the longest of the tags that match
longest_tag(text) ==
    CHOOSE i \in MatchingTags(text) :
        \A j \in MatchingTags(text) : Len(SpaceTags[j].chars) <= Len(SpaceTags[i].chars)

\* the token after a space tag: text that is left is no token
AfterTag(tag, text) ==
    IF Len(text) = Len(tag.chars) THEN <<Tag(tag.pattern), Skipped>>
    ELSE <<Tag(tag.pattern), Tag("<")>>

\* the tokens of a text written where the space tags are the valid tokens
\* that begin with `<`
lex_tag(text) ==
    IF text = <<>> \/ Head(text) # "<" \/ MatchingTags(SkipWhitespace(Tail(text))) = {}
    THEN <<Tag("<"), Skipped>>
    ELSE AfterTag(SpaceTags[longest_tag(SkipWhitespace(Tail(text)))], SkipWhitespace(Tail(text)))

\* the variants of ConstantTemplateType in declaration order: the literal of
\* the pattern of the first leaf, the characters of its type value, and
\* whether the pattern takes the `/>` of the element too
ConstantTemplateTypes ==
    << [variant |-> "Real", pattern |-> "<const_tpl type=\"real\"", chars |-> <<"r", "e", "a", "l">>,
        closed |-> FALSE],
       [variant |-> "Handle", pattern |-> "<const_tpl type=\"handle\"", chars |-> <<"h", "a", "n", "d", "l", "e">>,
        closed |-> FALSE],
       [variant |-> "Start", pattern |-> "<const_tpl type=\"start\"/>", chars |-> <<"s", "t", "a", "r", "t">>,
        closed |-> TRUE],
       [variant |-> "End", pattern |-> "<const_tpl type=\"end\"/>", chars |-> <<"e", "n", "d">>,
        closed |-> TRUE],
       [variant |-> "Next", pattern |-> "<const_tpl type=\"next\"/>", chars |-> <<"n", "e", "x", "t">>,
        closed |-> TRUE],
       [variant |-> "Next2", pattern |-> "<const_tpl type=\"next2\"/>", chars |-> <<"n", "e", "x", "t", "2">>,
        closed |-> TRUE],
       [variant |-> "CurSpace", pattern |-> "<const_tpl type=\"curspace\"/>", chars |-> <<"c", "u", "r", "s", "p", "a", "c", "e">>,
        closed |-> TRUE],
       [variant |-> "CurSpaceSize", pattern |-> "<const_tpl type=\"curspace_size\"/>", chars |-> <<"c", "u", "r", "s", "p", "a", "c", "e", "_", "s", "i", "z", "e">>,
        closed |-> TRUE],
       [variant |-> "SpaceId", pattern |-> "<const_tpl type=\"spaceid\"", chars |-> <<"s", "p", "a", "c", "e", "i", "d">>,
        closed |-> FALSE],
       [variant |-> "JumpRelative", pattern |-> "<const_tpl type=\"relative\"", chars |-> <<"r", "e", "l", "a", "t", "i", "v", "e">>,
        closed |-> FALSE],
       [variant |-> "FlowRef", pattern |-> "<const_tpl type=\"flowref\"/>", chars |-> <<"f", "l", "o", "w", "r", "e", "f">>,
        closed |-> TRUE],
       [variant |-> "FlowDest", pattern |-> "<const_tpl type=\"flowdest\"/>", chars |-> <<"f", "l", "o", "w", "d", "e", "s", "t">>,
        closed |-> TRUE],
       [variant |-> "FlowDestSize", pattern |-> "<const_tpl type=\"flowdest_size\"/>", chars |-> <<"f", "l", "o", "w", "d", "e", "s", "t", "_", "s", "i", "z", "e">>,
        closed |-> TRUE] >>

\* the tokens of a const_tpl tag with the type value l.text, written up to
\* the closing quote (name "const_tpl") or with its `/>` (name "const_tpl/")
lex_const_tpl(l) ==
    LET rows == {i \in 1..Len(ConstantTemplateTypes) : ConstantTemplateTypes[i].chars = l.text}
        row == ConstantTemplateTypes[CHOOSE i \in rows : TRUE]
    IN  IF rows = {} THEN <<Tag("<"), Skipped>>
        ELSE IF l.name = "const_tpl/"
        THEN IF row.closed THEN <<Tag(row.pattern), Skipped>>
             ELSE <<Tag(row.pattern), Tag("/>")>>
        ELSE IF row.closed THEN <<Tag("<"), Skipped>>
             ELSE <<Tag(row.pattern), Skipped>>

\* the tokens of one piece of text, in two places; a piece of text no leaf
\* pattern matches gives the token `<`, which no rule accepts
tokens_of(l) ==
    IF Whitespace(l) THEN <<Skipped, Skipped>>
    ELSE IF l.name = "opcode"
    THEN lex_opcode(SkipWhitespace(l.text)) \o <<Skipped, Skipped>>
    ELSE IF l.name = "tag" THEN lex_tag(l.text)
    ELSE IF l.name \in {"const_tpl", "const_tpl/"} THEN lex_const_tpl(l)
    ELSE IF l.name \in LeafNames /\ l.text # <<>>
    THEN IF l.name \in TightLeaves \/ ~AllIn(l.text, WhitespaceChars)
         THEN <<Tag("<"), Skipped>>
         ELSE <<Tag(l.name), Skipped>>
    ELSE <<l, Skipped>>

\* the tokens of a text
lex(raw) ==
    SelectSeq([k \in 1..(2 * Len(raw)) |-> tokens_of(raw[(k + 1) \div 2])[2 - (k % 2)]], IsToken)

\* the generated parser on the tokens, then the extraction
parse_tokens(toks) == Outcome(WalkRule("Sleigh", toks, 1), toks)

\* a parse that keeps the parser of an earlier call and answers from it
parse_stale(raw) ==
    IF ncalls >= 1 /\ other # 0 THEN Err(1)
    ELSE parse_tokens(lex(raw))

parse(raw) == parse_tokens(lex(raw))

(***************************************************************************)
(* The regex of a field.  Each impl block declares its cells as            *)
(* `const X_REGEX: OnceCell<Regex> = OnceCell::new()`, and a transform     *)
(* runs `X_REGEX.get_or_init(|| Regex::new(..))`.  A const is a value, not *)
(* a place: each expression that names it gets a new cell.                 *)
(***************************************************************************)
OnceCell_new == [regex |-> None]

\* get_or_init: the cell with its regex, compiled now if the cell is empty
get_or_init(cell) ==
    IF cell.regex.some THEN [cell |-> cell, compiled |-> 0]
    ELSE [cell |-> [regex |-> Some("Regex")], compiled |-> 1]

\* the fields whose transforms a call of parse runs, in their order
Decoded(w, toks) == IF Whole(w, toks) THEN w.uses ELSE <<>>
decoded(raw) == Decoded(WalkRule("Sleigh", lex(raw), 1), lex(raw))

\* the compilations of the calls of the transforms of the fields uses
Compilations(uses) ==
    [f \in {uses[i] : i \in 1..Len(uses)} |->
        Cardinality({i \in 1..Len(uses) : uses[i] = f}) * get_or_init(OnceCell_new).compiled]

\* the regex compilations of a call of parse
compilations(raw) == Compilations(decoded(raw))

(***************************************************************************)
(* The documents given to parse.                                           *)
(***************************************************************************)
Absent == <<"absent">>          \* marks an attribute that is left out
Opt(n, t) == IF t = Absent THEN <<>> ELSE <<Att(n, t)>>

RECURSIVE Rep(_, _)
Rep(c, k) == IF k = 0 THEN <<>> ELSE <<c>> \o Rep(c, k - 1)

t_true == <<"t", "r", "u", "e">>
t_false == <<"f", "a", "l", "s", "e">>
t_y == <<"y">>
t_n == <<"n">>
t_maybe == <<"m", "a", "y", "b", "e">>
t_Yes == <<"Y", "e", "s">>
t_0 == <<"0">>
t_1 == <<"1">>
t_3 == <<"3">>
t_7 == <<"7">>
t_42 == <<"4", "2">>
t_minus1 == <<"-", "1">>
t_0x0 == <<"0", "x", "0">>
t_0x1 == <<"0", "x", "1">>
t_0x1F == <<"0", "x", "1", "F">>
t_0xff == <<"0", "x", "f", "f">>
t_0xFF == <<"0", "x", "F", "F">>
t_0x10000000 == <<"0", "x", "1">> \o Rep("0", 7)
t_0x7fffffffffffffff == <<"0", "x", "7">> \o Rep("f", 15)
t_0x10000000000000000 == <<"0", "x", "1">> \o Rep("0", 16)
t_16 == <<"1", "6">>
t_ram == <<"r", "a", "m">>
t_a == <<"a">>
t_x == <<"x">>

Header(version, bigendian, uniqbase, maxdelay, uniqmask, numsections) ==
    <<Tag("<sleigh")>> \o Opt("version", version)
        \o <<Att("bigendian", bigendian), Att("align", t_1), Att("uniqbase", uniqbase)>>
        \o Opt("maxdelay", maxdelay) \o Opt("uniqmask", uniqmask)
        \o Opt("numsections", numsections) \o <<Tag(">")>>

SourceFilesBlock ==
    << Tag("<sourcefiles>"),
       Tag("<sourcefile"), Att("name", t_a), Att("index", t_0), Tag("/>"),
       Tag("</sourcefiles>") >>

SpacesBlock ==
    << Tag("<spaces"), Att("defaultspace", t_ram), Tag(">"),
       Tag("<space"), Att("name", t_ram), Att("index", t_1), Att("bigendian", t_false),
       Att("delay", t_1), Att("size", t_3), Att("physical", t_true), Tag("/>"),
       Tag("</spaces>") >>

SymbolTableBlock(patval) ==
    << Tag("<symbol_table"), Att("scopesize", t_1), Att("symbolsize", t_1), Tag(">"),
       Tag("<scope"), Att("id", t_0x0), Att("parent", t_0x0), Tag("/>"),
       Tag("<value_sym_head"), Att("name", t_x), Att("id", t_0x0), Att("scope", t_0x0), Tag("/>"),
       Tag("<value_sym"), Att("name", t_x), Att("id", t_0x0), Att("scope", t_0x0), Tag(">") >>
    \o patval
    \o << Tag("</value_sym>"), Tag("</symbol_table>") >>

TokenFieldElement(bigendian, signbit, bitend, shift) ==
    << Tag("<tokenfield"), Att("bigendian", bigendian), Att("signbit", signbit),
       Att("bitstart", t_0), Att("bitend", bitend), Att("bytestart", t_0),
       Att("byteend", t_0) >> \o Opt("shift", shift) \o <<Tag("/>")>>

IntbElement(val) == << Tag("<intb"), Att("val", val), Tag("/>") >>

DefaultHeader == Header(t_3, t_false, t_0x10000000, Absent, Absent, Absent)
DefaultPatval == <<Tag("<start_exp/>")>>
EndBlock == <<Tag("</sleigh>")>>

Document(header, patval) ==
    header \o SourceFilesBlock \o SpacesBlock \o SymbolTableBlock(patval) \o EndBlock

ValidDocument == Document(DefaultHeader, DefaultPatval)

\* documents put together from up to MaxBlocks sections, in any order
Block(b) ==
    CASE b = "sleigh" -> DefaultHeader
      [] b = "sourcefiles" -> SourceFilesBlock
      [] b = "spaces" -> SpacesBlock
      [] b = "symbol_table" -> SymbolTableBlock(DefaultPatval)
      [] b = "/sleigh" -> EndBlock

BlockNames == {"sleigh", "sourcefiles", "spaces", "symbol_table", "/sleigh"}

RECURSIVE Flatten(_)
Flatten(bs) == IF bs = <<>> THEN <<>> ELSE Block(Head(bs)) \o Flatten(Tail(bs))

BlockSeqs == UNION {[1..k -> BlockNames] : k \in 0..MaxBlocks}
SectionInputs == {Flatten(bs) : bs \in BlockSeqs}

\* the valid document cut after any token
TruncatedInputs == {SubSeq(ValidDocument, 1, k) : k \in 0..Len(ValidDocument)}

\* the valid document with its root attributes varied
HeaderInputs ==
    {Document(Header(v, b, u, md, um, ns), DefaultPatval) :
        v \in {Absent, t_3, t_minus1},
        b \in {t_true, t_false, t_y, t_n, t_maybe, t_Yes},
        u \in {t_0x10000000, t_0x7fffffffffffffff, t_0x10000000000000000, t_0xFF, t_0xff, t_16},
        md \in {Absent, t_0x1},
        um \in {Absent, t_0xff},
        ns \in {Absent, t_0x1, t_0x1F, t_1}}

\* decimal texts: an optional sign, a digit, then up to MaxFill more digits
DecTexts ==
    {sign \o <<d1>> \o Rep(d2, k) :
        sign \in {<<>>, <<"-">>}, d1 \in {"0", "1", "4", "9"},
        d2 \in {"0", "2", "9"}, k \in 0..MaxFill}

\* the valid document with its pattern value varied
TokenFieldInputs ==
    {Document(DefaultHeader, TokenFieldElement(b, sg, be, sh)) :
        b \in {t_true, t_false, t_y, t_n, t_maybe},
        sg \in {t_true, t_false, t_n},
        be \in {t_7, t_minus1},
        sh \in {t_0, Absent}}

IntbInputs == {Document(DefaultHeader, IntbElement(d)) : d \in DecTexts \cup {t_0x1, t_x}}

PatvalInputs ==
    {Document(DefaultHeader, pv) :
        pv \in { <<Tag("<start_exp/>")>>, <<Tag("<end_exp/>")>>, <<Tag("<next2_exp/>")>>,
                 << Tag("<contextfield"), Att("signbit", t_false), Att("startbit", t_0),
                    Att("endbit", t_7), Att("startbyte", t_0), Att("endbyte", t_0),
                    Att("shift", t_0), Tag("/>") >>,
                 << Tag("<operand_exp"), Att("index", t_0), Att("table", t_0x1F),
                    Att("ct", t_0x0), Tag("/>") >> }}

Inputs ==
    SectionInputs \cup TruncatedInputs \cup HeaderInputs
        \cup TokenFieldInputs \cup IntbInputs \cup PatvalInputs

(***************************************************************************)
(* The calls.                                                              *)
(***************************************************************************)
Init ==
    /\ input \in Inputs
    /\ result = NoResult
    /\ prev = NoResult
    /\ ncalls = 0
    /\ other = 0
    /\ pc = "ready"
    /\ compiled = EmptyBag
    /\ threads = <<>>
    /\ cells = {}

\* one call of parse on the input
Parse ==
    /\ pc = "ready"
    /\ result' = parse(input)
    /\ ncalls' = 1
    /\ pc' = "done"
    /\ compiled' = compiled (+) compilations(input)
    /\ UNCHANGED <<input, prev, other, threads, cells>>

Next == Parse

Spec == Init /\ [][Next]_vars

(***************************************************************************)
(* Repeated calls: the same input parsed again, with parses of other       *)
(* documents before and between.                                           *)
(***************************************************************************)
RepeatInputs == TruncatedInputs \cup TokenFieldInputs \cup PatvalInputs

OtherInput(k) ==
    IF k = 1 THEN ValidDocument
    ELSE Document(Header(t_3, t_maybe, t_0x10000000, Absent, Absent, t_0x1), DefaultPatval)

InitRepeat ==
    /\ input \in RepeatInputs
    /\ result = NoResult
    /\ prev = NoResult
    /\ ncalls = 0
    /\ other = 0
    /\ pc = "ready"
    /\ compiled = EmptyBag
    /\ threads = <<>>
    /\ cells = {}

\* a second, third, ... call of parse on the same input
ParseAgain ==
    /\ pc = "done"
    /\ ncalls < MaxCalls
    /\ prev' = result
    /\ result' = parse(input)
    /\ ncalls' = ncalls + 1
    /\ compiled' = compiled (+) compilations(input)
    /\ UNCHANGED <<input, other, pc, threads, cells>>

\* a call of parse on another document, its outcome dropped
ParseOther ==
    \E k \in 1..2 :
        /\ other = 0
        /\ parse(OtherInput(k)).kind \in {"Ok", "Err", "Panic"}
        /\ other' = k
        /\ compiled' = compiled (+) compilations(OtherInput(k))
        /\ UNCHANGED <<input, result, prev, ncalls, pc, threads, cells>>

NextRepeat == Parse \/ ParseAgain \/ ParseOther

SpecRepeat == InitRepeat /\ [][NextRepeat]_vars

(***************************************************************************)
(* xml_unescape applied to a text.                                         *)
(***************************************************************************)
Pieces ==
    { Amp, Lt, Gt, Quot, Apos, <<"&">>, <<";">>, <<"a">>, <<"l", "t", ";">>,
      <<"a", "m", "p", ";">>, <<"&", "x", ";">>, <<"&", "#", "6", "0", ";">> }

RECURSIVE Concat(_)
Concat(ps) == IF ps = <<>> THEN <<>> ELSE Head(ps) \o Concat(Tail(ps))

UnescapeInputs == {Concat(ps) : ps \in UNION {[1..k -> Pieces] : k \in 0..MaxPieces}}

InitUnescape ==
    /\ input \in UnescapeInputs
    /\ result = <<>>
    /\ prev = NoResult
    /\ ncalls = 0
    /\ other = 0
    /\ pc = "ready"
    /\ compiled = EmptyBag
    /\ threads = <<>>
    /\ cells = {}

Unescape ==
    /\ pc = "ready"
    /\ result' = xml_unescape(input)
    /\ pc' = "done"
    /\ UNCHANGED <<input, prev, ncalls, other, compiled, threads, cells>>

NextUnescape == Unescape

SpecUnescape == InitUnescape /\ [][NextUnescape]_vars

(***************************************************************************)
(* What the claims speak of.                                               *)
(***************************************************************************)
Positions(toks, n) == {i \in 1..Len(toks) : toks[i].name = n}
Once(toks, n) == Cardinality(Positions(toks, n)) = 1
PosOf(toks, n) == CHOOSE i \in Positions(toks, n) : TRUE

\* the root tag, one sourcefiles, one spaces, one symbol_table and the
\* closing root tag, in this order
RootShape(toks) ==
    /\ \A n \in {"<sleigh", "<sourcefiles>", "<spaces", "<symbol_table", "</sleigh>"} :
            Once(toks, n)
    /\ PosOf(toks, "<sleigh") = 1
    /\ PosOf(toks, "<sleigh") < PosOf(toks, "<sourcefiles>")
    /\ PosOf(toks, "<sourcefiles>") < PosOf(toks, "<spaces")
    /\ PosOf(toks, "<spaces") < PosOf(toks, "<symbol_table")
    /\ PosOf(toks, "<symbol_table") < PosOf(toks, "</sleigh>")
    /\ PosOf(toks, "</sleigh>") = Len(toks)

BoolAttrs == {"bigendian", "signbit", "physical", "flow", "context", "code"}
BoolTokens == {t_true, t_false}

\* a boolean attribute whose text is none of the two tokens
ThirdTokens(toks) ==
    {i \in 1..Len(toks) : toks[i].name \in BoolAttrs /\ toks[i].text \notin BoolTokens}

\* the pattern value of the first symbol of a document
PatvalOf(doc) == doc.symbol_table.symbols[1].value.patval

\* a small number as an Integer
Small(n) == IF n = 0 THEN Integer(FALSE, <<>>)
            ELSE IF n < 0 THEN Integer(TRUE, <<0 - n>>) ELSE Integer(FALSE, <<n>>)

RECURSIVE DivMod(_, _, _, _, _)
\* the quotient (limbs i..1 still to divide) and remainder of mag by d
DivMod(mag, i, d, rem, quo) ==
    IF i = 0 THEN [quo |-> quo, rem |-> rem]
    ELSE LET t == rem * LimbBase + mag[i]
             q == t \div d
         IN  DivMod(mag, i - 1, d, t % d,
                    IF quo = <<>> /\ q = 0 THEN <<>> ELSE <<q>> \o quo)

DigitChars == <<"0", "1", "2", "3", "4", "5", "6", "7", "8", "9", "a", "b", "c", "d", "e", "f">>

RECURSIVE ToDigits(_, _)
\* the digits of a magnitude in a base, most significant first, none for zero
ToDigits(mag, base) ==
    IF mag = <<>> THEN <<>>
    ELSE LET r == DivMod(mag, Len(mag), base, 0, <<>>)
         IN  ToDigits(r.quo, base) \o <<DigitChars[r.rem + 1]>>

\* the usual writing of an Integer in a base
Written(int, base) ==
    IF int.mag = <<>> THEN <<"0">>
    ELSE (IF int.neg THEN <<"-">> ELSE <<>>) \o ToDigits(int.mag, base)

RECURSIVE StripZeros(_)
StripZeros(s) == IF s # <<>> /\ Head(s) = "0" THEN StripZeros(Tail(s)) ELSE s

ToLower(c) ==
    CASE c = "A" -> "a" [] c = "B" -> "b" [] c = "C" -> "c"
      [] c = "D" -> "d" [] c = "E" -> "e" [] c = "F" -> "f" [] OTHER -> c

\* the number a text of digits denotes, written without sign for zero,
\* without leading zeros and in lower case
Denoted(text) ==
    LET neg == text # <<>> /\ Head(text) = "-"
        d == StripZeros(IF neg THEN Tail(text) ELSE text)
    IN  IF d = <<>> THEN <<"0">>
        ELSE (IF neg THEN <<"-">> ELSE <<>>) \o [i \in 1..Len(d) |-> ToLower(d[i])]

(***************************************************************************)
(* The claims.                                                             *)
(***************************************************************************)

\* C1: parse returns a Document only for the root tag, exactly one
\* sourcefiles, one spaces, one symbol_table and the closing root tag, in
\* this order; an input of any other shape gives an error and no Document.
C1_DocumentOnlyForRootShape ==
    pc = "done" =>
        /\ result.kind = "Ok" => RootShape(input)
        /\ ~RootShape(input) => result.kind = "Err" /\ result.doc = <<>>

C1_Witness ==
    /\ pc = "done"
    /\ result.kind = "Ok"
    /\ RootShape(input)
    /\ result.doc.sourcefiles.source_files # <<>>

\* C2: every input that conforms to the grammar (each token matches its
\* leaf pattern, the tokens in a sequence the grammar accepts) parses to Ok:
\* no transform aborts on text its own leaf pattern accepted.
C2_ConformingInputParses ==
    pc = "done" /\ Accepts(input) => result.kind = "Ok"

Malformed(toks) == ~Accepts(toks) \/ ThirdTokens(toks) # {}

\* C4: for every malformed input parse returns one error, positioned at the
\* first mismatch, and no Document.
C4_MalformedGivesOneError ==
    pc = "done" /\ Malformed(input) =>
        result.kind = "Err" /\ result.at >= 1 /\ result.doc = <<>>

\* C5: a boolean attribute accepts exactly two tokens; any other token,
\* a lower-case word included, makes parse return an error: no default
\* value, no abort.
C5_ThirdBooleanTokenIsError ==
    pc = "done" /\ RootShape(input) =>
        /\ result.kind = "Ok" => ThirdTokens(input) = {}
        /\ ThirdTokens(input) # {} => result.kind = "Err"

TokenFieldValue(bigendian, signbit, bitend) ==
    [ variant |-> "TokenField",
      value |-> [ bigendian |-> bigendian, signbit |-> signbit, bitstart |-> Small(0),
                  bitend |-> bitend, bytestart |-> Small(0), byteend |-> Small(0),
                  shift |-> Small(0) ] ]

\* C6 as stated: y is true and n is false, so the tokenfield element with
\* bigendian="n" signbit="n" bitstart="0" bitend="7" bytestart="0"
\* byteend="0" shift="0" parses to a TokenField with false, false, 0, 7, 0, 0, 0.
C6_Original_YN ==
    pc = "done" /\ input = Document(DefaultHeader, TokenFieldElement(t_n, t_n, t_7, t_0)) =>
        /\ result.kind = "Ok"
        /\ PatvalOf(result.doc) = TokenFieldValue(FALSE, FALSE, Small(7))

\* C6 amended: the boolean decoder maps `true` to true and `false` to false
\* and decodes no single letter: the tokenfield element with
\* bigendian="false" signbit="false" bitstart="0" bitend="7" bytestart="0"
\* byteend="0" shift="0" parses to a TokenField with false, false, 0, 7, 0,
\* 0, 0, and the element with y or n for a flag parses to no TokenField.
C6_TrueFalseDecoded ==
    pc = "done" =>
        /\ \A b \in BoolTokens, sg \in BoolTokens :
              input = Document(DefaultHeader, TokenFieldElement(b, sg, t_7, t_0)) =>
                  /\ result.kind = "Ok"
                  /\ PatvalOf(result.doc) =
                        TokenFieldValue(b = t_true, sg = t_true, Small(7))
        /\ \A b \in {t_y, t_n}, sg \in BoolTokens \cup {t_n} :
              input = Document(DefaultHeader, TokenFieldElement(b, sg, t_7, t_0)) =>
                  result.kind # "Ok"

C6_Witness ==
    /\ pc = "done"
    /\ input = Document(DefaultHeader, TokenFieldElement(t_false, t_false, t_7, t_0))
    /\ result.kind = "Ok"
    /\ PatvalOf(result.doc).value.bigendian = FALSE
    /\ PatvalOf(result.doc).value.bitend = Small(7)

\* C7: when an attribute value fails to decode, the error parse returns
\* carries the attribute's name and the raw text: for a tokenfield with
\* bigendian="maybe" it names attribute bigendian and raw text maybe.
C7_ErrorNamesAttribute ==
    pc = "done" =>
        \A sg \in BoolTokens, be \in {t_7, t_minus1} :
            input = Document(DefaultHeader, TokenFieldElement(t_maybe, sg, be, t_0)) =>
                /\ result.kind = "Err"
                /\ result.attr = "bigendian"
                /\ result.raw = t_maybe

RECURSIVE SinglePass(_)
\* one pass, left to right: an entity gives its character, and what it
\* gave is not read again
SinglePass(s) ==
    IF s = <<>> THEN <<>>
    ELSE IF StartsWith(s, Amp) THEN <<"&">> \o SinglePass(SubSeq(s, Len(Amp) + 1, Len(s)))
    ELSE IF StartsWith(s, Lt) THEN <<"<">> \o SinglePass(SubSeq(s, Len(Lt) + 1, Len(s)))
    ELSE IF StartsWith(s, Gt) THEN <<">">> \o SinglePass(SubSeq(s, Len(Gt) + 1, Len(s)))
    ELSE IF StartsWith(s, Quot) THEN <<"\"">> \o SinglePass(SubSeq(s, Len(Quot) + 1, Len(s)))
    ELSE IF StartsWith(s, Apos) THEN <<"'">> \o SinglePass(SubSeq(s, Len(Apos) + 1, Len(s)))
    ELSE <<Head(s)>> \o SinglePass(Tail(s))

\* C8: xml_unescape is one left-to-right pass in which each of the five
\* entities gives its character and the replacement is never scanned again
\* (so &amp;lt; gives &lt;); any other sequence is left unchanged.
C8_UnescapeIsSinglePass ==
    pc = "done" => result = SinglePass(input)

HexAttrs == {"uniqbase", "maxdelay", "uniqmask", "numsections"}

\* the value a Document holds for a root attribute
RootField(doc, n) ==
    CASE n = "uniqbase" -> doc.uniqbase
      [] n = "maxdelay" -> doc.maxdelay.val
      [] n = "uniqmask" -> doc.uniqmask.val
      [] n = "numsections" -> doc.numsections.val

\* C9: every hexadecimal attribute decodes to the exact value of its
\* digits, without truncation, wrap-around or abort, below, at and above
\* 2^64, upper-case and lower-case digits alike.
C9_HexDecodesExactly ==
    pc = "done" /\ Accepts(input) /\ ThirdTokens(input) = {} =>
        /\ result.kind = "Ok"
        /\ \A i \in 1..PosOf(input, ">") :
              input[i].name \in HexAttrs =>
                  Written(RootField(result.doc, input[i].name), 16)
                      = Denoted(Tail2(input[i].text))

\* the text of the val attribute of the intb element of a document
IntbText(toks) == toks[PosOf(toks, "<intb") + 1].text

\* C10: for every decimal text d (an optional `-`, then digits) the element
\* <intb val="d"/> in a pattern-value position parses to the ConstantValue
\* whose val is the base-10 integer d denotes; val="42" gives exactly 42.
C10_IntbIsDecimal ==
    pc = "done" /\ Positions(input, "<intb") # {} /\ Accepts(input) =>
        /\ result.kind = "Ok"
        /\ PatvalOf(result.doc).variant = "ConstantValue"
        /\ Written(PatvalOf(result.doc).value.val, 10) = Denoted(IntbText(input))
        /\ IntbText(input) = t_42 => PatvalOf(result.doc).value.val = Small(42)

C10_Witness ==
    /\ pc = "done"
    /\ Positions(input, "<intb") # {}
    /\ result.kind = "Ok"
    /\ PatvalOf(result.doc).value.val.neg
    /\ Len(PatvalOf(result.doc).value.val.mag) > 4

(***************************************************************************)
(* Variants of valid documents: an integer attribute written in the other  *)
(* lexical form, two attributes of a tag exchanged, a symbol table with    *)
(* any number of headers and of symbols.                                   *)
(***************************************************************************)
t_0x3 == <<"0", "x", "3">>

OperandValueElement(index, table, ct) ==
    << Tag("<operand_exp"), Att("index", index), Att("table", table), Att("ct", ct), Tag("/>") >>

FullHeader == Header(t_3, t_false, t_0x10000000, t_0x1, t_0xff, Absent)

VariantBases ==
    { Document(FullHeader, OperandValueElement(t_0, t_0x1F, t_0x0)),
      Document(FullHeader, IntbElement(t_42)),
      Document(DefaultHeader, TokenFieldElement(t_true, t_false, t_7, t_0)) }

\* a decimal text with the 0x prefix put before it, a prefixed text without it
OtherForm(text) ==
    IF StartsWith(text, <<"0", "x">>) THEN Tail2(text) ELSE <<"0", "x">> \o text

\* the attributes of the documents: the tokens that carry a text
IsAttribute(tok) == tok.text # <<>>

HexFields == {"uniqbase", "maxdelay", "uniqmask", "numsections", "id", "parent", "scope", "table", "ct"}
DecFields ==
    {"version", "align", "index", "delay", "deadcodedelay", "size", "wordsize", "scopesize",
     "symbolsize", "bitstart", "bitend", "bytestart", "byteend", "shift", "startbit", "endbit",
     "startbyte", "endbyte", "val"}

FormInputs ==
    UNION {{[D EXCEPT ![i].text = OtherForm(@)] :
                i \in {j \in 1..Len(D) : D[j].name \in HexFields \cup DecFields}} :
           D \in VariantBases}
        \cup {Document(Header(t_3, t_false, t_0x10000000, Absent, Absent, t_1), DefaultPatval)}

\* tokens i and i + 1 exchanged
Swap(toks, i) == [toks EXCEPT ![i] = toks[i + 1], ![i + 1] = toks[i]]

\* the places where two attributes of one tag follow each other
AttributePairs(toks) ==
    {i \in 1..(Len(toks) - 1) : IsAttribute(toks[i]) /\ IsAttribute(toks[i + 1])}

PermutedInputs == UNION {{Swap(D, i) : i \in AttributePairs(D)} : D \in VariantBases}

RECURSIVE Times(_, _)
Times(toks, k) == IF k = 0 THEN <<>> ELSE toks \o Times(toks, k - 1)

StartHeadElement ==
    << Tag("<start_sym_head"), Att("name", t_x), Att("id", t_0x1), Att("scope", t_0x0), Tag("/>") >>
StartSymElement ==
    << Tag("<start_sym"), Att("name", t_x), Att("id", t_0x1), Att("scope", t_0x0), Tag("/>") >>
UserOpHeadElement ==
    << Tag("<userop_head"), Att("name", t_a), Att("id", t_0x3), Att("scope", t_0x0), Tag("/>") >>
UserOpElement ==
    << Tag("<userop"), Att("name", t_a), Att("id", t_0x3), Att("scope", t_0x0),
       Att("index", t_0), Tag("/>") >>

\* a document whose symbol table holds the given header and symbol elements
TableDocument(headers, symbols) ==
    DefaultHeader \o SourceFilesBlock \o SpacesBlock
        \o << Tag("<symbol_table"), Att("scopesize", t_1), Att("symbolsize", t_1), Tag(">"),
              Tag("<scope"), Att("id", t_0x0), Att("parent", t_0x0), Tag("/>") >>
        \o headers \o symbols \o <<Tag("</symbol_table>")>> \o EndBlock

MaxSymbols == 2

CountInputs ==
    {TableDocument(Times(UserOpHeadElement, a) \o Times(StartHeadElement, b),
                   Times(UserOpElement, c) \o Times(StartSymElement, d)) :
        a \in 0..1, b \in 0..MaxSymbols, c \in 0..1, d \in 0..MaxSymbols}

VariantInputs == VariantBases \cup FormInputs \cup PermutedInputs \cup CountInputs

InitVariants ==
    /\ input \in VariantInputs
    /\ result = NoResult
    /\ prev = NoResult
    /\ ncalls = 0
    /\ other = 0
    /\ pc = "ready"
    /\ compiled = EmptyBag
    /\ threads = <<>>
    /\ cells = {}

SpecVariants == InitVariants /\ [][Next]_vars

\* an integer attribute written in the form of the other kind of field
WrongForm(toks) ==
    \E i \in 1..Len(toks) :
        \/ toks[i].name \in HexFields /\ ~StartsWith(toks[i].text, <<"0", "x">>)
        \/ toks[i].name \in DecFields /\ StartsWith(toks[i].text, <<"0", "x">>)

\* C11: the lexical form of an integer attribute is fixed by its field: a
\* hexadecimal field given a value without the 0x prefix and a decimal field
\* given a prefixed value make parse return an error, and no Document holds
\* a value decoded in the other base.
C11_FormFixedByField ==
    pc = "done" /\ WrongForm(input) => result.kind = "Err" /\ result.doc = <<>>

C11_Witness ==
    /\ pc = "done"
    /\ \E D \in VariantBases :
          /\ input = [D EXCEPT ![PosOf(D, "<scope") + 1].text = <<"0">>]
          /\ result = Err(PosOf(D, "<scope") + 1)
    /\ captures("dec", input[PosOf(input, "<scope") + 1].text).some

\* C12: the attributes of a tag are accepted in any order: a valid document
\* with two attributes of one tag exchanged parses to the Document of the
\* valid document.
C12_AttributesInAnyOrder ==
    pc = "done" =>
        \A D \in VariantBases :
            \A i \in AttributePairs(D) :
                input = Swap(D, i) => result.kind = "Ok" /\ result = parse(D)

\* the symbol a header announces: its variant and its identity
HeaderOf(sym) ==
    IF sym.variant = "UserOpSymbol" THEN [variant |-> "UserOp", id |-> sym.value.user_op.header.id]
    ELSE [variant |-> "Start", id |-> sym.value.header.id]

\* C15: in every Document the symbol table's symbol_headers and symbols have
\* the same length and the i-th symbol is the one the i-th header announces;
\* a symbol table whose numbers of headers and of symbols differ gives an
\* error.
C15_HeadersMatchSymbols ==
    pc = "done" /\ input \in CountInputs =>
        /\ result.kind \in {"Ok", "Err"}
        /\ result.kind = "Ok" =>
              LET t == result.doc.symbol_table
              IN  /\ Len(t.symbol_headers) = Len(t.symbols)
                  /\ \A i \in 1..Len(t.symbols) :
                        /\ t.symbol_headers[i].variant = HeaderOf(t.symbols[i]).variant
                        /\ t.symbol_headers[i].value.header.id = HeaderOf(t.symbols[i]).id

(***************************************************************************)
(* Documents with an expression: the defexp of an operand symbol.          *)
(***************************************************************************)
MaxDepth == 4

BinaryOps == {"plus", "sub", "mult", "lshift", "rshift", "and", "or", "xor", "div"}
UnaryOps == {"minus", "not"}

OpenTag(op) ==
    CASE op = "plus" -> "<plus_exp>" [] op = "sub" -> "<sub_exp>" [] op = "mult" -> "<mult_exp>"
      [] op = "lshift" -> "<lshift_exp>" [] op = "rshift" -> "<rshift_exp>"
      [] op = "and" -> "<and_exp>" [] op = "or" -> "<or_exp>" [] op = "xor" -> "<xor_exp>"
      [] op = "div" -> "<div_exp>" [] op = "minus" -> "<minus_exp>" [] op = "not" -> "<not_exp>"

CloseTag(op) ==
    CASE op = "plus" -> "</plus_exp>" [] op = "sub" -> "</sub_exp>" [] op = "mult" -> "</mult_exp>"
      [] op = "lshift" -> "</lshift_exp>" [] op = "rshift" -> "</rshift_exp>"
      [] op = "and" -> "</and_exp>" [] op = "or" -> "</or_exp>" [] op = "xor" -> "</xor_exp>"
      [] op = "div" -> "</div_exp>" [] op = "minus" -> "</minus_exp>" [] op = "not" -> "</not_exp>"

\* an operator element around the token sequences of its children
Element(op, children) ==
    <<Tag(OpenTag(op))>> \o children \o <<Tag(CloseTag(op))>>

LeafElements == {IntbElement(t_1), IntbElement(t_7), <<Tag("<start_exp/>")>>}

\* every operator over leaves
FlatElements ==
    {Element(op, l \o r) : op \in BinaryOps, l \in LeafElements, r \in LeafElements}
        \cup {Element(op, c) : op \in UnaryOps, c \in LeafElements}

\* an operator element with k children
ArityElements ==
    {Element(op, Times(IntbElement(t_1), k)) : op \in BinaryOps \cup UnaryOps, k \in 0..3}

RECURSIVE Nested(_)
\* n operators nested in each other around leaves, the nested one on either side
Nested(n) ==
    IF n = 0 THEN {IntbElement(t_1)}
    ELSE {Element("plus", e \o IntbElement(t_7)) : e \in Nested(n - 1)}
            \cup {Element("div", IntbElement(t_7) \o e) : e \in Nested(n - 1)}
            \cup {Element("minus", e) : e \in Nested(n - 1)}

NestedElements == UNION {Nested(n) : n \in 0..MaxDepth}

\* both children nested
TreeElements ==
    {Element(op, l \o r) : op \in {"sub", "xor"}, l \in Nested(1), r \in Nested(1)}

OperandHeadElement ==
    << Tag("<operand_sym_head"), Att("name", t_x), Att("id", t_0x1), Att("scope", t_0x0), Tag("/>") >>

\* an operand symbol, its defexp the given tokens (none: no defexp)
OperandSymElement(defexp) ==
    << Tag("<operand_sym"), Att("name", t_x), Att("id", t_0x1), Att("scope", t_0x0),
       Att("off", t_0), Att("base", t_minus1), Att("minlen", t_0), Att("index", t_0), Tag(">") >>
    \o OperandValueElement(t_0, t_0x1F, t_0x0) \o defexp \o <<Tag("</operand_sym>")>>

ExprDocument(defexp) == TableDocument(OperandHeadElement, OperandSymElement(defexp))

ExprInputs ==
    {ExprDocument(e) :
        e \in {<<>>} \cup LeafElements \cup FlatElements \cup ArityElements
                \cup NestedElements \cup TreeElements}

InitExpr ==
    /\ input \in ExprInputs
    /\ result = NoResult
    /\ prev = NoResult
    /\ ncalls = 0
    /\ other = 0
    /\ pc = "ready"
    /\ compiled = EmptyBag
    /\ threads = <<>>
    /\ cells = {}

SpecExpr == InitExpr /\ [][Next]_vars

\* the tokens of the defexp of the operand symbol of a document
DefexpTokens(toks) ==
    SubSeq(toks, PosOf(toks, "<operand_exp") + 5, PosOf(toks, "</operand_sym>") - 1)

DefexpOf(doc) == doc.symbol_table.symbols[1].value.defexp

VariantOp(v) ==
    CASE v = "Plus" -> "plus" [] v = "Sub" -> "sub" [] v = "Mult" -> "mult"
      [] v = "LeftShift" -> "lshift" [] v = "RightShift" -> "rshift" [] v = "And" -> "and"
      [] v = "Or" -> "or" [] v = "Xor" -> "xor" [] v = "Div" -> "div"
      [] v = "Minus" -> "minus" [] v = "Not" -> "not"

RECURSIVE InOrder(_)
\* an expression value written out: the operator's tag, left before right
InOrder(e) ==
    CASE e.variant = "PatternValue" ->
            IF e.value.variant = "ConstantValue"
            THEN IntbElement(Written(e.value.value.val, 10))
            ELSE <<Tag("<start_exp/>")>>
      [] e.variant = "BinaryExpression" ->
            Element(VariantOp(e.value.variant),
                    InOrder(e.value.value.left) \o InOrder(e.value.value.right))
      [] e.variant = "UnaryExpression" ->
            Element(VariantOp(e.value.variant), InOrder(e.value.value.inner))

Max(a, b) == IF a >= b THEN a ELSE b

RECURSIVE Depth(_)
\* the number of operators on the longest path of an expression value
Depth(e) ==
    CASE e.variant = "PatternValue" -> 0
      [] e.variant = "BinaryExpression" ->
            1 + Max(Depth(e.value.value.left), Depth(e.value.value.right))
      [] e.variant = "UnaryExpression" -> 1 + Depth(e.value.value.inner)
      [] OTHER -> 0

RECURSIVE Nesting(_, _, _, _)
\* the largest number of operator elements open at once in tokens i..
Nesting(toks, i, open, most) ==
    IF i > Len(toks) THEN most
    ELSE IF \E op \in BinaryOps \cup UnaryOps : toks[i].name = OpenTag(op)
    THEN Nesting(toks, i + 1, open + 1, Max(most, open + 1))
    ELSE IF \E op \in BinaryOps \cup UnaryOps : toks[i].name = CloseTag(op)
    THEN Nesting(toks, i + 1, open - 1, most)
    ELSE Nesting(toks, i + 1, open, most)

\* C16: for each of the nine binary tags the first child in document order
\* is left and the second is right, at every nesting level, and for the two
\* unary tags the child is inner; an element with another number of
\* children is rejected.
C16_ChildrenInDocumentOrder ==
    pc = "done" =>
        /\ result.kind = "Ok" /\ DefexpOf(result.doc).some =>
              InOrder(DefexpOf(result.doc).val) = DefexpTokens(input)
        /\ \A op \in BinaryOps \cup UnaryOps, k \in 0..3 :
              input = ExprDocument(Element(op, Times(IntbElement(t_1), k))) =>
                  IF k = (IF op \in BinaryOps THEN 2 ELSE 1)
                  THEN result.kind = "Ok" /\ DefexpOf(result.doc).some
                  ELSE result.kind = "Err"

C16_Witness ==
    /\ pc = "done"
    /\ result.kind = "Ok"
    /\ DefexpOf(result.doc).some
    /\ DefexpOf(result.doc).val.variant = "BinaryExpression"
    /\ DefexpOf(result.doc).val.value.variant = "Div"
    /\ DefexpOf(result.doc).val.value.value.left.variant = "PatternValue"
    /\ DefexpOf(result.doc).val.value.value.right.variant = "UnaryExpression"

t_a_b == <<"a", " ", "b">>

\* a valid document with whitespace inside two quoted values
SpacedValueDocument ==
    DefaultHeader
        \o << Tag("<sourcefiles>"),
              Tag("<sourcefile"), Att("name", t_a_b), Att("index", t_0), Tag("/>"),
              Tag("<sourcefile"), Att("name", <<" ">>), Att("index", t_1), Tag("/>"),
              Tag("</sourcefiles>") >>
        \o SpacesBlock \o SymbolTableBlock(IntbElement(t_42)) \o EndBlock

SpaceBases ==
    { ValidDocument, SpacedValueDocument,
      ExprDocument(Element("plus", IntbElement(t_1) \o Element("not", <<Tag("<start_exp/>")>>))) }

WhitespaceRuns == {<<" ">>, <<"\n", " ", " ">>, <<"\t">>}

\* the lexemes with a run of whitespace put after the first k of them
Spaced(toks, k, run) ==
    SubSeq(toks, 1, k) \o <<Att(" ", run)>> \o SubSeq(toks, k + 1, Len(toks))

\* the lexemes with a run of whitespace put before and after each of them
RECURSIVE SpacedAll(_, _)
SpacedAll(toks, run) ==
    IF toks = <<>> THEN <<Att(" ", run)>>
    ELSE <<Att(" ", run), Head(toks)>> \o SpacedAll(Tail(toks), run)

\* whitespace between two tokens
BetweenInputs ==
    UNION {{Spaced(D, k, run) : k \in 0..Len(D), run \in WhitespaceRuns} : D \in SpaceBases}
        \cup {Spaced(Spaced(ValidDocument, k, <<" ">>), j, <<"\n">>) :
                k \in 0..Len(ValidDocument), j \in {1, 6, 12, 20, Len(ValidDocument) + 1}}
        \cup {SpacedAll(D, run) : D \in SpaceBases, run \in WhitespaceRuns}

\* the opening tags of the documents above
OpeningTags ==
    { "<sleigh", "<sourcefiles>", "<sourcefile", "<spaces", "<space", "<symbol_table", "<scope",
      "<value_sym_head", "<value_sym", "<operand_sym_head", "<operand_sym", "<operand_exp",
      "<intb", "<start_exp/>", "<plus_exp>", "<not_exp>" }

\* whitespace after the `<` of one opening tag
InsideInputs ==
    UNION {{[D EXCEPT ![i].text = run] :
                i \in {j \in 1..Len(D) : D[j].name \in OpeningTags}, run \in WhitespaceRuns} :
           D \in SpaceBases}

WhitespaceInputs == SpaceBases \cup BetweenInputs \cup InsideInputs

InitWhitespace ==
    /\ input \in WhitespaceInputs
    /\ result = NoResult
    /\ prev = NoResult
    /\ ncalls = 0
    /\ other = 0
    /\ pc = "ready"
    /\ compiled = EmptyBag
    /\ threads = <<>>
    /\ cells = {}

SpecWhitespace == InitWhitespace /\ [][Next]_vars

\* the lexemes that are no whitespace between tokens
RECURSIVE Unspaced(_)
Unspaced(raw) ==
    IF raw = <<>> THEN <<>>
    ELSE IF Head(raw).name = " " THEN Unspaced(Tail(raw))
    ELSE <<Head(raw)>> \o Unspaced(Tail(raw))

\* the tags written without whitespace inside
Closed(raw) ==
    [i \in 1..Len(raw) |-> IF raw[i].name \in OpeningTags THEN Tag(raw[i].name) ELSE raw[i]]

\* C13: every opening tag, the root tag included, is recognised with
\* whitespace between `<` and the tag name: a valid document with
\* whitespace put after the `<` of an opening tag parses to the same
\* Document.
C13_WhitespaceAfterOpeningBracket ==
    pc = "done" /\ input \in InsideInputs =>
        /\ result.kind = "Ok"
        /\ result = parse(Closed(input))

t_1_7 == <<"1", ":", "7">>

VarNodeElement ==
    << Tag("<varnode_tpl>"),
       Tag("<const_tpl type=\"spaceid\""), Att("name", t_ram), Tag("/>"),
       Tag("<const_tpl type=\"real\""), Att("val", t_0x1F), Tag("/>"),
       Tag("<const_tpl type=\"handle\""), Att("val", t_0), Tag("s=\"size\""), Tag("/>"),
       Tag("</varnode_tpl>") >>

\* an op_tpl element whose code attribute has the given text, without
\* output and with the given inputs
OpElementWith(code, inputs) ==
    << Tag("<op_tpl"), Tag("code=\""), Att("opcode", code), Tag("\">"), Tag("<null/>") >>
        \o inputs \o <<Tag("</op_tpl>")>>

OpElement(code) == OpElementWith(code, <<>>)

SubtableHeadElement ==
    << Tag("<subtable_sym_head"), Att("name", t_x), Att("id", t_0x1), Att("scope", t_0x0), Tag("/>") >>

\* a subtable symbol with one constructor whose template holds the op_tpl
\* elements ops
SubtableElement(ops) ==
    << Tag("<subtable_sym"), Att("name", t_x), Att("id", t_0x1), Att("scope", t_0x0),
       Att("numct", t_1), Tag(">"),
       Tag("<constructor"), Att("parent", t_0x0), Att("first", t_minus1), Att("length", t_1),
       Att("line", t_1_7), Tag(">"),
       Tag("<construct_tpl"), Att("labels", t_0), Tag(">"), Tag("<null/>") >>
        \o ops
        \o << Tag("</construct_tpl>"), Tag("</constructor>"),
              Tag("<decision"), Att("number", t_0), Att("context", t_false), Att("start", t_0),
              Att("size", t_0), Tag(">"), Tag("</decision>"),
              Tag("</subtable_sym>") >>

OpDocument(ops) == TableDocument(SubtableHeadElement, SubtableElement(ops))

\* the texts of the opcode names
OpcodeNames == {OperationCodes[i].chars : i \in 1..Len(OperationCodes)}

\* the opcodes of p-code that OperationCode does not list
t_INDIRECT == <<"I", "N", "D", "I", "R", "E", "C", "T">>
t_PTRADD == <<"P", "T", "R", "A", "D", "D">>

\* texts that are no opcode name: a name with a letter more or a letter less,
\* in lower case, or followed by another name; opcodes that are not listed
OtherNames ==
    ({Append(n, "X") : n \in OpcodeNames}
        \cup {SubSeq(n, 1, Len(n) - 1) : n \in OpcodeNames}
        \cup {[i \in 1..Len(n) |-> ToLower(n[i])] : n \in OpcodeNames}
        \cup {OperationCodes[8].chars \o OperationCodes[2].chars, t_INDIRECT, t_PTRADD, <<>>})
    \ OpcodeNames

\* a name with whitespace between it and the quotes
PaddedNames ==
    {Append(OperationCodes[i].chars, " ") : i \in {8, 9}}
        \cup {<<"\n">> \o OperationCodes[16].chars}

\* the names of which one begins with another
PrefixPairs ==
    {p \in OpcodeNames \X OpcodeNames : p[1] # p[2] /\ StartsWith(p[2], p[1])}

OpcodeInputs ==
    {OpDocument(OpElement(n)) : n \in OpcodeNames \cup OtherNames \cup PaddedNames}
        \cup {OpDocument(OpElement(p[1]) \o OpElement(p[2])) : p \in PrefixPairs}
        \cup {OpDocument(OpElement(p[2]) \o OpElement(p[1])) : p \in PrefixPairs}
        \cup {OpDocument(OpElementWith(OperationCodes[2].chars, VarNodeElement))}

InitOpcodes ==
    /\ input \in OpcodeInputs
    /\ result = NoResult
    /\ prev = NoResult
    /\ ncalls = 0
    /\ other = 0
    /\ pc = "ready"
    /\ compiled = EmptyBag
    /\ threads = <<>>
    /\ cells = {}

SpecOpcodes == InitOpcodes /\ [][Next]_vars

IsOpcode(l) == l.name = "opcode"

\* the texts of the code attributes of a document, in document order
CodesWritten(raw) ==
    LET ls == SelectSeq(raw, IsOpcode) IN [i \in 1..Len(ls) |-> ls[i].text]

\* the codes of the operation templates of a Document
CodesOf(doc) ==
    LET ops == doc.symbol_table.symbols[1].value.subtable.constructors[1].templ.val.vec
    IN  [i \in 1..Len(ops) |-> ops[i].code.variant]

\* the variant the list gives for a name
VariantNamed(n) ==
    OperationCodes[CHOOSE i \in 1..Len(OperationCodes) : OperationCodes[i].chars = n].variant

\* C17: each opcode name in the code attribute of an op_tpl parses to its
\* own OperationCode variant, also when one name begins with another; a
\* text that is not a name of the list gives a structural error.
C17_OpcodeToOwnVariant ==
    /\ \A i, j \in 1..Len(OperationCodes) :
          i # j => /\ OperationCodes[i].chars # OperationCodes[j].chars
                   /\ OperationCodes[i].variant # OperationCodes[j].variant
    /\ pc = "done" /\ input \in OpcodeInputs =>
          LET written == CodesWritten(input)
          IN  IF \A i \in 1..Len(written) : written[i] \in OpcodeNames
              THEN /\ result.kind = "Ok"
                   /\ CodesOf(result.doc) = [i \in 1..Len(written) |-> VariantNamed(written[i])]
              ELSE result.kind = "Err"

(***************************************************************************)
(* Calls of parse on threads of their own.  A call builds its own parser   *)
(* and tree, then runs the transforms of the fields of its document: each  *)
(* names the cell of its field, initialises it and matches the text with   *)
(* its regex.                                                              *)
(***************************************************************************)
Threads == {1, 2}

ThreadInputs == {ValidDocument, OtherInput(2), SubSeq(ValidDocument, 1, 10)}

\* a static: one cell of a field for all the calls of the process
cell_static(t, field) == <<0, field>>

\* the place of the cell a transform of thread t names for a field: the
\* const gives the expression a cell of its own, a temporary of the call
cell_of(t, field) == <<t, field>>

InitThreads ==
    /\ input = <<>>
    /\ result = NoResult
    /\ prev = NoResult
    /\ ncalls = 0
    /\ other = 0
    /\ pc = "spawned"
    /\ compiled = EmptyBag
    /\ threads \in [Threads -> {[input |-> d, pc |-> "ready", uses |-> <<>>, at |-> 0,
                                 saw |-> "own", result |-> NoResult] : d \in ThreadInputs}]
    /\ cells = {}

\* the field thread t is decoding, and the cell it uses for it
FieldOf(t) == threads[t].uses[threads[t].at]
PlaceOf(t) == cell_of(t, FieldOf(t))
CellAt(place) == CHOOSE c \in cells : c.place = place

\* the outcomes of a call: reading a cell that another thread is
\* initialising is a data race, after which the call may return anything
Outcomes(t) ==
    IF threads[t].saw = "own" THEN {parse(threads[t].input)}
    ELSE {parse(threads[t].input), Panic("No captures or no capture group")}

\* the call begins: the generated parser runs on the text with a parser of
\* its own; a text with a syntax error returns Err at once
Enter(t) ==
    /\ threads[t].pc = "ready"
    /\ IF decoded(threads[t].input) = <<>>
       THEN threads' = [threads EXCEPT ![t].pc = "done", ![t].result = parse(threads[t].input)]
       ELSE threads' = [threads EXCEPT ![t].pc = "name", ![t].at = 1,
                                       ![t].uses = decoded(threads[t].input)]
    /\ UNCHANGED <<input, result, prev, ncalls, other, pc, compiled, cells>>

\* a transform names the cell of its field
Name(t) ==
    /\ threads[t].pc = "name"
    /\ IF \E c \in cells : c.place = PlaceOf(t)
       THEN /\ threads' = [threads EXCEPT ![t].pc = "get_or_init",
                              ![t].saw = IF CellAt(PlaceOf(t)).busy THEN "partial" ELSE @]
            /\ cells' = cells
       ELSE /\ threads' = [threads EXCEPT ![t].pc = "get_or_init"]
            /\ cells' = cells \cup {[place |-> PlaceOf(t), by |-> t, busy |-> FALSE,
                                     cell |-> OnceCell_new]}
    /\ UNCHANGED <<input, result, prev, ncalls, other, pc, compiled>>

\* get_or_init finds the cell empty and begins to compile the regex
BeginInit(t) ==
    /\ threads[t].pc = "get_or_init"
    /\ threads' = [threads EXCEPT ![t].pc = "initialising"]
    /\ cells' = (cells \ {CellAt(PlaceOf(t))})
                    \cup {[CellAt(PlaceOf(t)) EXCEPT !.busy = ~CellAt(PlaceOf(t)).cell.regex.some]}
    /\ UNCHANGED <<input, result, prev, ncalls, other, pc, compiled>>

\* get_or_init returns the regex of the cell
EndInit(t) ==
    /\ threads[t].pc = "initialising"
    /\ threads' = [threads EXCEPT ![t].pc = "captures"]
    /\ cells' = (cells \ {CellAt(PlaceOf(t))})
                    \cup {[CellAt(PlaceOf(t)) EXCEPT
                              !.busy = FALSE, !.cell = get_or_init(CellAt(PlaceOf(t)).cell).cell]}
    /\ compiled' = IF get_or_init(CellAt(PlaceOf(t)).cell).compiled = 1
                   THEN compiled (+) SetToBag({FieldOf(t)})
                   ELSE compiled
    /\ UNCHANGED <<input, result, prev, ncalls, other, pc>>

\* the regex matches the text and the temporary cell is dropped; after the
\* last transform the call returns
Captures(t) ==
    /\ threads[t].pc = "captures"
    /\ cells' = {c \in cells : c.place # PlaceOf(t) \/ c.by # t}
    /\ IF threads[t].at < Len(threads[t].uses)
       THEN threads' = [threads EXCEPT ![t].pc = "name", ![t].at = @ + 1]
       ELSE \E r \in Outcomes(t) :
                threads' = [threads EXCEPT ![t].pc = "done", ![t].result = r]
    /\ UNCHANGED <<input, result, prev, ncalls, other, pc, compiled>>

NextThreads ==
    \E t \in Threads : Enter(t) \/ Name(t) \/ BeginInit(t) \/ EndInit(t) \/ Captures(t)

SpecThreads == InitThreads /\ [][NextThreads]_vars

\* the threads that are in a transform
Decoding(t) == threads[t].pc \in {"get_or_init", "initialising", "captures"}

C19_CompiledAtMostOnce ==
    \A f \in BagToSet(compiled) : CopiesIn(f, compiled) <= 1

(***************************************************************************)
(* Documents with address spaces.  A space tag is written by its           *)
(* characters (lexeme name "tag"), so that the lexer chooses among the     *)
(* five tag patterns.                                                      *)
(***************************************************************************)
TagText(chars) == [name |-> "tag", text |-> <<"<">> \o chars]

\* the attributes of a space
SpaceAttrs(name, bigendian, deadcodedelay, wordsize) ==
    << Att("name", name), Att("index", t_1), Att("bigendian", bigendian), Att("delay", t_1) >>
        \o Opt("deadcodedelay", deadcodedelay)
        \o <<Att("size", t_3)>>
        \o Opt("wordsize", wordsize)
        \o <<Att("physical", t_true)>>

SpaceElement(tag, attrs) == <<TagText(tag)>> \o attrs \o <<Tag("/>")>>

SpacesDocument(spaces) ==
    DefaultHeader \o SourceFilesBlock
        \o << Tag("<spaces"), Att("defaultspace", t_ram), Tag(">") >> \o spaces \o <<Tag("</spaces>")>>
        \o SymbolTableBlock(DefaultPatval) \o EndBlock

SpaceTagTexts == {SpaceTags[i].chars : i \in 1..Len(SpaceTags)}

SpaceAttrSets ==
    {SpaceAttrs(n, b, d, w) : n \in {t_ram, t_a}, b \in {t_true, t_false, t_maybe},
                              d \in {Absent, t_1}, w \in {Absent, t_42}}

\* texts that are no space tag: a tag with a letter less or a letter more,
\* and the tag of the enclosing element
OtherTagTexts ==
    ({SubSeq(t, 1, Len(t) - 1) : t \in SpaceTagTexts}
        \cup {Append(t, "s") : t \in SpaceTagTexts}
        \cup {Append(t, "_") : t \in SpaceTagTexts})
    \ SpaceTagTexts

SpaceInputs ==
    {SpacesDocument(SpaceElement(t, a)) : t \in SpaceTagTexts, a \in SpaceAttrSets}
        \cup {SpacesDocument(SpaceElement(t, SpaceAttrs(t_ram, t_false, Absent, Absent))
                                \o SpaceElement(u, SpaceAttrs(t_a, t_true, t_1, Absent))) :
                t \in SpaceTagTexts, u \in SpaceTagTexts}
        \cup {SpacesDocument(SpaceElement(t, SpaceAttrs(t_ram, t_false, Absent, Absent))) :
                t \in OtherTagTexts}

InitSpaces ==
    /\ input \in SpaceInputs
    /\ result = NoResult
    /\ prev = NoResult
    /\ ncalls = 0
    /\ other = 0
    /\ pc = "ready"
    /\ compiled = EmptyBag
    /\ threads = <<>>
    /\ cells = {}

SpecSpaces == InitSpaces /\ [][Next]_vars

IsTagText(l) == l.name = "tag"

\* the space tags of a document as written, in document order
TagsWritten(raw) ==
    LET ls == SelectSeq(raw, IsTagText) IN [i \in 1..Len(ls) |-> Tail(ls[i].text)]

\* the document with every space tag written as the tag `tag`
Retagged(raw, tag) ==
    [i \in 1..Len(raw) |-> IF IsTagText(raw[i]) THEN TagText(tag) ELSE raw[i]]

\* the variant the tag of a space stands for
VariantOfTag(tag) ==
    CASE tag = <<"s", "p", "a", "c", "e", "_", "b", "a", "s", "e">> -> "Base"
      [] tag = <<"s", "p", "a", "c", "e", "_", "u", "n", "i", "q", "u", "e">> -> "Unique"
      [] tag = <<"s", "p", "a", "c", "e", "_", "o", "t", "h", "e", "r">> -> "Other"
      [] tag = <<"s", "p", "a", "c", "e", "_", "o", "v", "e", "r", "l", "a", "y">> -> "Overlay"
      [] tag = <<"s", "p", "a", "c", "e">> -> "Space"
      [] OTHER -> ""

SpacesOf(doc) == doc.spaces.spaces

\* the outcome when every space is written with the plain tag `space`
AsPlainSpace(raw) == parse(Retagged(raw, <<"s", "p", "a", "c", "e">>))

\* the spaces of the outcome o have the variants of the tags and the records
\* of the outcome plain
SameSpaces(o, plain, tags) ==
    /\ o.kind = plain.kind
    /\ o.kind = "Ok" =>
          /\ Len(SpacesOf(o.doc)) = Len(tags)
          /\ \A i \in 1..Len(tags) :
                /\ SpacesOf(o.doc)[i].variant = VariantOfTag(tags[i])
                /\ SpacesOf(o.doc)[i].value = SpacesOf(plain.doc)[i].value

\* C21: each of the five space tags selects its own AddrSpaceType variant,
\* although `space` begins the other four, and the AddrSpace record is
\* decoded the same under all five: the outcome is that of the document
\* written with the tag `space`, but for the variants.
C21_TagSelectsVariant ==
    pc = "done" /\ input \in SpaceInputs
        /\ (\A i \in 1..Len(TagsWritten(input)) : TagsWritten(input)[i] \in SpaceTagTexts) =>
            SameSpaces(result, AsPlainSpace(input), TagsWritten(input))

\* a document with a space_overlay and a space parsed to an Overlay and a
\* Space whose records have their deadcodedelay
C21_Witness ==
    /\ pc = "done" /\ result.kind = "Ok"
    /\ TagsWritten(input) = <<SpaceTags[4].chars, SpaceTags[5].chars>>
    /\ SpacesOf(result.doc)[1].variant = "Overlay"
    /\ SpacesOf(result.doc)[2].variant = "Space"
    /\ SpacesOf(result.doc)[2].value.space.deadcodedelay.some
    /\ ~SpacesOf(result.doc)[1].value.space.deadcodedelay.some

(***************************************************************************)
(* Documents with constant templates.  A const_tpl tag is written by the   *)
(* characters of its type value: lexeme "const_tpl" for the tag up to the  *)
(* closing quote of the type, "const_tpl/" for a tag closed at once.       *)
(***************************************************************************)
t_lt == <<"a", "&", "l", "t", ";">>

\* a const_tpl element of a type with the attributes attrs
ConstElement(type, attrs) ==
    IF attrs = <<>> THEN <<[name |-> "const_tpl/", text |-> type]>>
    ELSE <<[name |-> "const_tpl", text |-> type]>> \o attrs \o <<Tag("/>")>>

\* a varnode_tpl whose offset is the const_tpl element c
VarNodeWith(c) ==
    << Tag("<varnode_tpl>"),
       Tag("<const_tpl type=\"spaceid\""), Att("name", t_ram), Tag("/>") >>
        \o c
        \o << Tag("<const_tpl type=\"real\""), Att("val", t_0x1F), Tag("/>"),
              Tag("</varnode_tpl>") >>

ConstDocument(type, attrs) ==
    OpDocument(OpElementWith(OperationCodes[2].chars, VarNodeWith(ConstElement(type, attrs))))

TypeNames == {ConstantTemplateTypes[i].chars : i \in 1..Len(ConstantTemplateTypes)}

\* type values that no variant has
OtherTypes ==
    { <<>>, <<"R", "e", "a", "l">>, <<"n", "e", "x">>, <<"n", "e", "x", "t", "3">>,
      <<"c", "o", "n", "s", "t">> }

SelectorTags == {"s=\"space\"", "s=\"offset\"", "s=\"size\"", "s=\"offset_plus\""}

AttrLists ==
    { <<>> }
        \cup {<<Att("val", v)>> : v \in {t_0x1F, t_0x0, t_42, t_minus1, t_x}}
        \cup {<<Att("val", v), Tag(k)>> : v \in {t_42, t_minus1}, k \in SelectorTags}
        \cup {<<Att("val", t_42), Tag(k), Att("plus", t_0xff)>> : k \in SelectorTags}
        \cup { <<Att("val", t_0x1F), Tag("s=\"size\"")>>,
               <<Att("val", t_42), Att("plus", t_0xff)>>,
               <<Att("val", t_42), Tag("s=\"size\""), Tag("s=\"offset\"")>>,
               <<Att("val", t_42), Tag("s=\"other\"")>>,
               <<Att("val", t_42), Tag("s=\"size\""), Att("plus", t_1)>>,
               <<Att("name", t_ram)>>, <<Att("name", <<>>)>>, <<Att("name", t_lt)>>,
               <<Att("name", t_ram), Att("val", t_0x1F)>> }

ConstInputs == {ConstDocument(t, a) : t \in TypeNames \cup OtherTypes, a \in AttrLists}

InitConst ==
    /\ input \in ConstInputs
    /\ result = NoResult
    /\ prev = NoResult
    /\ ncalls = 0
    /\ other = 0
    /\ pc = "ready"
    /\ compiled = EmptyBag
    /\ threads = <<>>
    /\ cells = {}

SpecConst == InitConst /\ [][Next]_vars

IsConstTpl(l) == l.name \in {"const_tpl", "const_tpl/"}

\* the type value of the const_tpl written by its characters, and the
\* attributes that follow it up to its `/>`
TypeWritten(raw) == raw[CHOOSE i \in 1..Len(raw) : IsConstTpl(raw[i])].text
AttrsWritten(raw) ==
    LET i == CHOOSE j \in 1..Len(raw) : IsConstTpl(raw[j])
        n == CHOOSE k \in 0..Len(raw) :
                /\ \A j \in (i + 1)..(i + k) : raw[j].name # "/>"
                /\ (raw[i].name = "const_tpl/" => k = 0)
                /\ (raw[i].name = "const_tpl" => raw[i + k + 1].name = "/>")
    IN  SubSeq(raw, i + 1, i + n)

IsHexText(t) == StartsWith(t, <<"0", "x">>) /\ Len(t) > 2 /\ AllIn(Tail2(t), HexDigits)
IsDecText(t) == SignedDigits(t)

\* the constant template of the Document that the const_tpl gave
ConstOf(doc) ==
    doc.symbol_table.symbols[1].value.subtable.constructors[1].templ.val.vec[1].input[1].offset

t_real == <<"r", "e", "a", "l">>
t_relative == <<"r", "e", "l", "a", "t", "i", "v", "e">>
t_handle == <<"h", "a", "n", "d", "l", "e">>
t_spaceid == <<"s", "p", "a", "c", "e", "i", "d">>

\* the variant that the claim gives a type value
VariantOfType(t) ==
    CASE t = t_real -> "Real"
      [] t = t_relative -> "JumpRelative"
      [] t = t_handle -> "Handle"
      [] t = t_spaceid -> "SpaceId"
      [] t = <<"s", "t", "a", "r", "t">> -> "Start"
      [] t = <<"e", "n", "d">> -> "End"
      [] t = <<"n", "e", "x", "t">> -> "Next"
      [] t = <<"n", "e", "x", "t", "2">> -> "Next2"
      [] t = <<"c", "u", "r", "s", "p", "a", "c", "e">> -> "CurSpace"
      [] t = <<"c", "u", "r", "s", "p", "a", "c", "e", "_", "s", "i", "z", "e">> -> "CurSpaceSize"
      [] t = <<"f", "l", "o", "w", "r", "e", "f">> -> "FlowRef"
      [] t = <<"f", "l", "o", "w", "d", "e", "s", "t">> -> "FlowDest"
      [] t = <<"f", "l", "o", "w", "d", "e", "s", "t", "_", "s", "i", "z", "e">> -> "FlowDestSize"
      [] OTHER -> ""

SelectorOfTag(k) ==
    CASE k = "s=\"space\"" -> "Space"
      [] k = "s=\"offset\"" -> "Offset"
      [] k = "s=\"size\"" -> "Size"
      [] k = "s=\"offset_plus\"" -> "OffsetPlus"
      [] OTHER -> ""

\* the attributes a are the payload the claim gives the type t
PayloadOf(t, a) ==
    CASE t \in {t_real, t_relative} ->
            Len(a) = 1 /\ a[1].name = "val" /\ IsHexText(a[1].text)
      [] t = t_handle ->
            /\ Len(a) \in {2, 3}
            /\ a[1].name = "val" /\ IsDecText(a[1].text)
            /\ a[2].name \in SelectorTags
            /\ Len(a) = 3 => a[3].name = "plus" /\ IsHexText(a[3].text)
      [] t = t_spaceid ->
            Len(a) = 1 /\ a[1].name = "name"
      [] OTHER -> VariantOfType(t) # "" /\ a = <<>>

\* the constant template c holds what the attributes a of the type t say
DecodedAs(c, t, a) ==
    /\ c.variant = VariantOfType(t)
    /\ CASE t \in {t_real, t_relative} ->
                Written(c.value.val, 16) = Denoted(Tail2(a[1].text))
         [] t = t_handle ->
                /\ Written(c.value.val, 10) = Denoted(a[1].text)
                /\ c.value.selector.variant = SelectorOfTag(a[2].name)
                /\ c.value.plus.some <=> Len(a) = 3
                /\ Len(a) = 3 => Written(c.value.plus.val, 16) = Denoted(Tail2(a[3].text))
         [] t = t_spaceid -> c.value.name = xml_unescape(a[1].text)
         [] OTHER -> c.value = <<>>

\* C22: the type of a const_tpl alone selects the variant and the encoding
\* of the payload: real and relative a hexadecimal val; handle a decimal
\* val, one selector and a hexadecimal plus that is Some only when written;
\* spaceid an unescaped name; the nine other types nothing; every other
\* type value or payload is rejected.
C22_TypeSelectsVariant ==
    pc = "done" /\ input \in ConstInputs =>
        IF PayloadOf(TypeWritten(input), AttrsWritten(input))
        THEN /\ result.kind = "Ok"
             /\ DecodedAs(ConstOf(result.doc), TypeWritten(input), AttrsWritten(input))
        ELSE result.kind = "Err"

\* a handle without plus parsed to a Handle whose plus is None
C22_Witness ==
    /\ pc = "done" /\ result.kind = "Ok"
    /\ TypeWritten(input) = t_handle
    /\ Len(AttrsWritten(input)) = 2
    /\ ConstOf(result.doc).variant = "Handle"
    /\ ~ConstOf(result.doc).value.plus.some

(***************************************************************************)
(* The optional attributes of the root tag.                                *)
(***************************************************************************)
OptionalRootAttrs == {"version", "maxdelay", "uniqmask", "numsections"}

\* the places of the attribute n in the root tag
RootAttr(toks, n) == {i \in 1..PosOf(toks, ">") : toks[i].name = n}

OptionalRootField(doc, n) ==
    CASE n = "version" -> doc.version
      [] n = "maxdelay" -> doc.maxdelay
      [] n = "uniqmask" -> doc.uniqmask
      [] n = "numsections" -> doc.numsections

\* the field of the attribute n is Some of the number its text denotes:
\* version in decimal, the others in hexadecimal after `0x`
DenotedBy(field, n, text) ==
    /\ field.some
    /\ IF n = "version" THEN Written(field.val, 10) = Denoted(text)
       ELSE Written(field.val, 16) = Denoted(Tail2(text))

\* C23: for each optional attribute of the root tag (version, maxdelay,
\* uniqmask, numsections): absent, the field is None and the parse still
\* succeeds; present, the field is Some of the value its text denotes, a
\* numsections attribute that the grammar accepts included.
C23_OptionalRootAttributes ==
    pc = "done" /\ input \in HeaderInputs /\ Accepts(input) /\ ThirdTokens(input) = {} =>
        /\ result.kind = "Ok"
        /\ \A n \in OptionalRootAttrs :
              IF RootAttr(input, n) = {}
              THEN ~OptionalRootField(result.doc, n).some
              ELSE DenotedBy(OptionalRootField(result.doc, n), n,
                             input[CHOOSE i \in RootAttr(input, n) : TRUE].text)

(***************************************************************************)
(* Documents with a token field or a context field, with and without the   *)
(* shift attribute.                                                        *)
(***************************************************************************)
ContextFieldElement(signbit, endbit, shift) ==
    << Tag("<contextfield"), Att("signbit", signbit), Att("startbit", t_0),
       Att("endbit", endbit), Att("startbyte", t_0), Att("endbyte", t_0) >>
        \o Opt("shift", shift) \o <<Tag("/>")>>

ContextFieldInputs ==
    {Document(DefaultHeader, ContextFieldElement(sg, e, sh)) :
        sg \in {t_true, t_false, t_n}, e \in {t_7, t_minus1, t_42},
        sh \in {Absent, t_0, t_3, t_minus1}}

FieldInputs == TokenFieldInputs \cup ContextFieldInputs

InitFields ==
    /\ input \in FieldInputs
    /\ result = NoResult
    /\ prev = NoResult
    /\ ncalls = 0
    /\ other = 0
    /\ pc = "ready"
    /\ compiled = EmptyBag
    /\ threads = <<>>
    /\ cells = {}

SpecFields == InitFields /\ [][Next]_vars

\* the flags of the field are true or false
FlagsGiven(toks) == ThirdTokens(toks) = {}

ShiftGiven(toks) == \E i \in 1..Len(toks) : toks[i].name = "shift"

\* C24: the shift attribute of a tokenfield and of a contextfield element
\* is optional: an element with its flags and its bit and byte range but no
\* shift parses successfully.
C24_ShiftIsOptional ==
    pc = "done" /\ input \in FieldInputs /\ FlagsGiven(input) /\ ~ShiftGiven(input) =>
        result.kind = "Ok"

(***************************************************************************)
(* Documents with a constructor whose children are given.                  *)
(***************************************************************************)
\* a decision element without pairs and without nested decisions
LeafDecision ==
    << Tag("<decision"), Att("number", t_0), Att("context", t_false), Att("start", t_0),
       Att("size", t_0), Tag(">"), Tag("</decision>") >>

\* a subtable symbol with the constructor elements and the decision element
SubtableOf(constructors, decision) ==
    << Tag("<subtable_sym"), Att("name", t_x), Att("id", t_0x1), Att("scope", t_0x0),
       Att("numct", t_1), Tag(">") >>
        \o constructors \o decision \o <<Tag("</subtable_sym>")>>

ConstructorElement(children) ==
    << Tag("<constructor"), Att("parent", t_0x0), Att("first", t_minus1), Att("length", t_1),
       Att("line", t_1_7), Tag(">") >>
        \o children \o <<Tag("</constructor>")>>

ConstructorDocument(children) ==
    TableDocument(SubtableHeadElement, SubtableOf(ConstructorElement(children), LeafDecision))

PrintElement(piece) == << Tag("<print"), Att("piece", piece), Tag("/>") >>
OpPrintElement(id) == << Tag("<opprint"), Att("id", id), Tag("/>") >>
OperElement(id) == << Tag("<oper"), Att("id", id), Tag("/>") >>

MaxPrints == 4      \* print and opprint elements in a constructor

PieceElements ==
    {PrintElement(t) : t \in {t_a, <<>>, t_lt}} \cup {OpPrintElement(d) : d \in {t_0, t_1}}

RECURSIVE ElementSeqs(_, _)
\* the sequences of up to n of the elements
ElementSeqs(elements, n) ==
    IF n = 0 THEN {<<>>}
    ELSE ElementSeqs(elements, n - 1)
            \cup {e \o r : e \in elements, r \in {q \in ElementSeqs(elements, n - 1) : Len(q) = 3 * (n - 1)}}

PrintInputs ==
    {ConstructorDocument(OperElement(t_0x0) \o OperElement(t_0x1) \o ps) :
        ps \in ElementSeqs(PieceElements, MaxPrints)}

InitPrints ==
    /\ input \in PrintInputs
    /\ result = NoResult
    /\ prev = NoResult
    /\ ncalls = 0
    /\ other = 0
    /\ pc = "ready"
    /\ compiled = EmptyBag
    /\ threads = <<>>
    /\ cells = {}

SpecPrints == InitPrints /\ [][Next]_vars

\* the places of the print and opprint tags of a document, in their order
IsPiece(l) == l.name \in {"<print", "<opprint"}
PiecePlaces(raw) == {i \in 1..Len(raw) : IsPiece(raw[i])}
NthPlace(places, n) == CHOOSE i \in places : Cardinality({j \in places : j <= i}) = n

ConstructorOf(doc) == doc.symbol_table.symbols[1].value.subtable.constructors[1]

\* the print piece p is the element written at place i: a print with its
\* text unescaped, or an opprint with its number
PieceWritten(p, raw, i) ==
    IF raw[i].name = "<print"
    THEN p.variant = "Print" /\ p.value.piece = xml_unescape(raw[i + 1].text)
    ELSE p.variant = "Operand" /\ Written(p.value.id, 10) = Denoted(raw[i + 1].text)

\* C25: the printpiece list of a Constructor holds the print and opprint
\* elements of the constructor in document order, interleaved as written,
\* none dropped, merged or regrouped by kind.
C25_PrintPiecesInOrder ==
    pc = "done" /\ input \in PrintInputs =>
        /\ result.kind = "Ok"
        /\ Len(ConstructorOf(result.doc).printpiece) = Cardinality(PiecePlaces(input))
        /\ \A n \in 1..Cardinality(PiecePlaces(input)) :
              PieceWritten(ConstructorOf(result.doc).printpiece[n], input,
                           NthPlace(PiecePlaces(input), n))

\* print, opprint, empty print, opprint parsed to four pieces in this order
C25_Witness ==
    /\ pc = "done" /\ result.kind = "Ok"
    /\ Len(ConstructorOf(result.doc).printpiece) = 4
    /\ [n \in 1..4 |-> ConstructorOf(result.doc).printpiece[n].variant]
            = <<"Print", "Operand", "Print", "Operand">>
    /\ ConstructorOf(result.doc).printpiece[3].value.piece = <<>>
    /\ ConstructorOf(result.doc).printpiece[1].value.piece # <<>>

(***************************************************************************)
(* Operation templates: the output and the inputs.                         *)
(***************************************************************************)
MaxOperands == 3    \* children of an op_tpl element

\* a varnode_tpl whose offset is the number of the text
VarNodeOf(text) == VarNodeWith(ConstElement(t_real, <<Att("val", text)>>))

OperandElements == {<<Tag("<null/>")>>} \cup {VarNodeOf(t) : t \in {t_0x0, t_0x1, t_0x1F}}

RECURSIVE OperandSeqs(_)
\* what is written from up to n of the elements, one after the other
OperandSeqs(n) ==
    IF n = 0 THEN {<<>>}
    ELSE {<<>>} \cup {e \o r : e \in OperandElements, r \in OperandSeqs(n - 1)}

\* an op_tpl element with the given children
OperationElement(children) ==
    << Tag("<op_tpl"), Tag("code=\""), Att("opcode", <<"C", "O", "P", "Y">>), Tag("\">") >>
        \o children \o <<Tag("</op_tpl>")>>

\* a construct_tpl element holding one op_tpl element with the children
OperandDocument(children) ==
    ConstructorDocument(<< Tag("<construct_tpl"), Tag(">"), Tag("<null/>") >>
                            \o OperationElement(children) \o <<Tag("</construct_tpl>")>>)

OperandInputs == {OperandDocument(cs) : cs \in OperandSeqs(MaxOperands)}

InitOperands ==
    /\ input \in OperandInputs
    /\ result = NoResult
    /\ prev = NoResult
    /\ ncalls = 0
    /\ other = 0
    /\ pc = "ready"
    /\ compiled = EmptyBag
    /\ threads = <<>>
    /\ cells = {}

SpecOperands == InitOperands /\ [][Next]_vars

\* the places of the children of the op_tpl element of a document
OperandPlaces(raw) ==
    {i \in 1..Len(raw) :
        /\ raw[i].name \in {"<null/>", "<varnode_tpl>"}
        /\ \E j \in 1..(i - 1) : raw[j].name = "<op_tpl"}

\* the text of the offset of the varnode_tpl written at place i
OffsetWritten(raw, i) == raw[i + 5].text

OperationOf(doc) == ConstructorOf(doc).templ.val.vec[1]

\* the varnode v is the varnode_tpl written at place i
VarNodeWritten(v, raw, i) ==
    /\ raw[i].name = "<varnode_tpl>"
    /\ v.offset.variant = "Real"
    /\ Written(v.offset.value.val, 16) = Denoted(Tail2(OffsetWritten(raw, i)))

\* the inputs of the operation are the children after the first, in order
InputsWritten(op, raw, places) ==
    /\ Len(op.input) = Cardinality(places) - 1
    /\ \A n \in 1..Len(op.input) :
            VarNodeWritten(op.input[n], raw, NthPlace(places, n + 1))

\* the children after the first are varnode_tpl elements
InputsFollow(raw, places) ==
    \A i \in places : i # NthPlace(places, 1) => raw[i].name = "<varnode_tpl>"

\* C26: the first child of an op_tpl is the output designator: `<null/>`
\* gives no output, a first varnode_tpl is the output and is not among the
\* inputs; the varnode_tpl elements after it are the inputs in document
\* order; an op_tpl without a first child is rejected.
C26_FirstChildIsOutput ==
    pc = "done" /\ input \in OperandInputs =>
        IF OperandPlaces(input) = {} THEN result.kind = "Err"
        ELSE InputsFollow(input, OperandPlaces(input)) =>
                /\ result.kind = "Ok"
                /\ IF input[NthPlace(OperandPlaces(input), 1)].name = "<null/>"
                   THEN OperationOf(result.doc).output.variant = "Null"
                   ELSE /\ OperationOf(result.doc).output.variant = "Output"
                        /\ VarNodeWritten(OperationOf(result.doc).output.value, input,
                                          NthPlace(OperandPlaces(input), 1))
                /\ InputsWritten(OperationOf(result.doc), input, OperandPlaces(input))

\* an output varnode followed by two different inputs
C26_Witness ==
    /\ pc = "done" /\ result.kind = "Ok" /\ input \in OperandInputs
    /\ OperationOf(result.doc).output.variant = "Output"
    /\ Len(OperationOf(result.doc).input) = 2
    /\ OperationOf(result.doc).input[1] # OperationOf(result.doc).input[2]
    /\ OperationOf(result.doc).input[1] # OperationOf(result.doc).output.value

(***************************************************************************)
(* Decision trees.                                                         *)
(***************************************************************************)
MaxNodes == 4       \* decision elements in a decision tree

PairElement(id) ==
    << Tag("<pair"), Att("id", id), Tag(">"),
       Tag("<instruct_pat>"),
       Tag("<pat_block"), Att("offset", t_0), Att("nonzero", t_1), Tag(">"), Tag("</pat_block>"),
       Tag("</instruct_pat>"),
       Tag("</pair>") >>

\* the pairs written in a decision element: none, or two
PairChoices == {<<>>, PairElement(t_1) \o PairElement(t_0)}

DecisionOpen ==
    << Tag("<decision"), Att("number", t_0), Att("context", t_false), Att("start", t_0),
       Att("size", t_0), Tag(">") >>

RECURSIVE DecisionElements(_), DecisionLists(_)
\* the decision elements that hold n decision elements, themselves included
DecisionElements(n) ==
    {DecisionOpen \o ps \o ds \o <<Tag("</decision>")>> :
        ps \in PairChoices, ds \in DecisionLists(n - 1)}

\* the lists of decision elements that hold n decision elements
DecisionLists(n) ==
    IF n = 0 THEN {<<>>}
    ELSE UNION {{d \o ds : d \in DecisionElements(k), ds \in DecisionLists(n - k)} : k \in 1..n}

DecisionDocument(decision) ==
    TableDocument(SubtableHeadElement, SubtableOf(ConstructorElement(<<>>), decision))

DecisionInputs ==
    {DecisionDocument(d) : d \in UNION {DecisionElements(n) : n \in 1..MaxNodes}}

InitDecisions ==
    /\ input \in DecisionInputs
    /\ result = NoResult
    /\ prev = NoResult
    /\ ncalls = 0
    /\ other = 0
    /\ pc = "ready"
    /\ compiled = EmptyBag
    /\ threads = <<>>
    /\ cells = {}

SpecDecisions == InitDecisions /\ [][Next]_vars

\* the number of decision elements that are open at place i
Level(raw, i) ==
    Cardinality({j \in 1..(i - 1) : raw[j].name = "<decision"})
        - Cardinality({j \in 1..(i - 1) : raw[j].name = "</decision>"})

\* the start of the decision element that place j is directly nested in
Encloser(raw, j) ==
    CHOOSE i \in 1..(j - 1) :
        /\ raw[i].name = "<decision" /\ Level(raw, i) = Level(raw, j) - 1
        /\ \A k \in (i + 1)..(j - 1) :
                ~(raw[k].name = "<decision" /\ Level(raw, k) = Level(raw, j) - 1)

\* the places of the tags of the name nested directly in the decision
\* element that starts at place i
NestedIn(raw, i, name) ==
    {j \in (i + 1)..Len(raw) :
        raw[j].name = name /\ Level(raw, j) >= 1 /\ Encloser(raw, j) = i}

\* the pairs are the pair elements at the places, in order
PairsWritten(pairs, raw, places) ==
    /\ Len(pairs) = Cardinality(places)
    /\ \A n \in 1..Len(pairs) :
            /\ Written(pairs[n].id, 10) = Denoted(raw[NthPlace(places, n) + 1].text)
            /\ pairs[n].pattern.variant = "Instruction"

RECURSIVE NodeWritten(_, _, _)
RECURSIVE NodesWritten(_, _, _)
\* the nodes are the decision elements at the places, in order
NodesWritten(nodes, raw, places) ==
    /\ Len(nodes) = Cardinality(places)
    /\ \A n \in 1..Len(nodes) : NodeWritten(nodes[n], raw, NthPlace(places, n))

\* the node has the pairs and the children of the decision element that
\* starts at place i
NodeWritten(node, raw, i) ==
    /\ PairsWritten(node.pairs, raw, NestedIn(raw, i, "<pair"))
    /\ NodesWritten(node.children, raw, NestedIn(raw, i, "<decision"))

DecisionOf(doc) == doc.symbol_table.symbols[1].value.subtable.decisiontree

\* the place of the outermost decision element
RootPlace(raw) == CHOOSE i \in 1..Len(raw) : raw[i].name = "<decision" /\ Level(raw, i) = 0

\* C27: the DecisionNode tree has the shape of the nesting of the decision
\* elements: at every depth a node holds its pair elements in document order
\* and, as children, the decision elements nested directly in it, in order;
\* a decision element without nested decisions has no children.
C27_DecisionTreeShape ==
    pc = "done" /\ input \in DecisionInputs =>
        /\ result.kind = "Ok"
        /\ NodeWritten(DecisionOf(result.doc), input, RootPlace(input))

\* a node with two children, the first of which has a child with pairs
C27_Witness ==
    /\ pc = "done" /\ result.kind = "Ok" /\ input \in DecisionInputs
    /\ Len(DecisionOf(result.doc).children) = 2
    /\ Len(DecisionOf(result.doc).children[1].children) = 1
    /\ Len(DecisionOf(result.doc).children[1].children[1].pairs) = 2
    /\ DecisionOf(result.doc).children[1].children[1].children = <<>>
    /\ DecisionOf(result.doc).children[2].children = <<>>

(***************************************************************************)
(* Source files.                                                           *)
(***************************************************************************)
MaxFiles == 3       \* sourcefile elements in a document

SourceFileElement(name, index) ==
    << Tag("<sourcefile"), Att("name", name), Att("index", index), Tag("/>") >>

SourceFileElements == {SourceFileElement(n, i) : n \in {t_a, t_x}, i \in {t_0, t_1, t_3}}

RECURSIVE SourceFileSeqs(_)
\* what is written from up to n sourcefile elements, one after the other
SourceFileSeqs(n) ==
    IF n = 0 THEN {<<>>}
    ELSE {<<>>} \cup {e \o r : e \in SourceFileElements, r \in SourceFileSeqs(n - 1)}

SourceFilesDocument(files) ==
    DefaultHeader \o <<Tag("<sourcefiles>")>> \o files \o <<Tag("</sourcefiles>")>>
        \o SpacesBlock \o SymbolTableBlock(DefaultPatval) \o EndBlock

SourceFilesInputs == {SourceFilesDocument(fs) : fs \in SourceFileSeqs(MaxFiles)}

InitSourceFiles ==
    /\ input \in SourceFilesInputs
    /\ result = NoResult
    /\ prev = NoResult
    /\ ncalls = 0
    /\ other = 0
    /\ pc = "ready"
    /\ compiled = EmptyBag
    /\ threads = <<>>
    /\ cells = {}

SpecSourceFiles == InitSourceFiles /\ [][Next]_vars

SourceFilePlaces(raw) == {i \in 1..Len(raw) : raw[i].name = "<sourcefile"}

\* the source files are the sourcefile elements at the places, in order
SourceFilesWritten(files, raw, places) ==
    /\ Len(files) = Cardinality(places)
    /\ \A n \in 1..Len(files) :
            /\ files[n].name = xml_unescape(raw[NthPlace(places, n) + 1].text)
            /\ Written(files[n].index, 10) = Denoted(raw[NthPlace(places, n) + 2].text)

\* no two of the source files have the same index
DistinctIndexes(files) ==
    \A m, n \in 1..Len(files) : m # n => files[m].index # files[n].index

\* C28: in every Document that parse returns, source_files holds the
\* sourcefile elements in document order and their index values are pairwise
\* distinct.
C28_SourceFilesDistinct ==
    pc = "done" /\ result.kind = "Ok" =>
        /\ SourceFilesWritten(result.doc.sourcefiles.source_files, input, SourceFilePlaces(input))
        /\ DistinctIndexes(result.doc.sourcefiles.source_files)

(***************************************************************************)
(* The children of a constructor.                                          *)
(***************************************************************************)
MaxChildren == 3    \* children of a constructor, of any kind

ContextOpElement ==
    << Tag("<context_op"), Att("i", t_0), Att("shift", t_0), Att("mask", t_0x1), Tag(">") >>
        \o IntbElement(t_1) \o <<Tag("</context_op>")>>

CommitElement ==
    << Tag("<commit"), Att("id", t_0x0), Att("num", t_0), Att("mask", t_0x1),
       Att("flow", t_true), Tag("/>") >>

\* a construct_tpl element without operations
TemplateElement(labels) ==
    << Tag("<construct_tpl"), Att("labels", labels), Tag(">"), Tag("<null/>"),
       Tag("</construct_tpl>") >>

ChildElements ==
    { OperElement(t_0x0), PrintElement(t_a), OpPrintElement(t_0), ContextOpElement,
      CommitElement, TemplateElement(t_0), TemplateElement(t_1) }

RECURSIVE ChildSeqs(_)
\* what is written from up to n children, one after the other
ChildSeqs(n) ==
    IF n = 0 THEN {<<>>}
    ELSE {<<>>} \cup {e \o r : e \in ChildElements, r \in ChildSeqs(n - 1)}

\* children of every kind, in the order of the groups
AllChildren ==
    << OperElement(t_0x0), PrintElement(t_a), OpPrintElement(t_0), ContextOpElement,
       CommitElement, TemplateElement(t_0), TemplateElement(t_1) >>

\* the children cs with the child e put in after the first k of them
PutIn(cs, e, k) ==
    Concat(SubSeq(cs, 1, k)) \o e \o Concat(SubSeq(cs, k + 1, Len(cs)))

ChildInputs ==
    {ConstructorDocument(cs) : cs \in ChildSeqs(MaxChildren)}
        \cup {ConstructorDocument(PutIn(AllChildren, e, k)) :
                e \in ChildElements, k \in 0..Len(AllChildren)}

InitChildren ==
    /\ input \in ChildInputs
    /\ result = NoResult
    /\ prev = NoResult
    /\ ncalls = 0
    /\ other = 0
    /\ pc = "ready"
    /\ compiled = EmptyBag
    /\ threads = <<>>
    /\ cells = {}

SpecChildren == InitChildren /\ [][Next]_vars

\* the group of a child by its tag: 0 for what is no child
Group(name) ==
    CASE name = "<oper" -> 1
      [] name \in {"<print", "<opprint"} -> 2
      [] name \in {"<context_op", "<commit"} -> 3
      [] name = "<construct_tpl" -> 4
      [] OTHER -> 0

GroupPlaces(raw, g) == {i \in 1..Len(raw) : Group(raw[i].name) = g}

\* no child is written before a child of an earlier group
Grouped(raw) ==
    \A i, j \in 1..Len(raw) :
        i < j /\ Group(raw[i].name) > 0 /\ Group(raw[j].name) > 0
            => Group(raw[i].name) <= Group(raw[j].name)

\* the template t is the construct_tpl element written at place i
TemplateWritten(t, raw, i) ==
    t.numlabels.some /\ Written(t.numlabels.val, 10) = Denoted(raw[i + 1].text)

\* the first construct_tpl element is templ, the others are namedtempl
TemplatesWritten(c, raw, places) ==
    /\ c.templ.some <=> places # {}
    /\ c.templ.some => TemplateWritten(c.templ.val, raw, NthPlace(places, 1))
    /\ Len(c.namedtempl) = (IF places = {} THEN 0 ELSE Cardinality(places) - 1)
    /\ \A n \in 1..Len(c.namedtempl) :
            TemplateWritten(c.namedtempl[n], raw, NthPlace(places, n + 1))

\* C29: the children of a constructor are accepted only grouped: the oper
\* elements, then the print and opprint elements, then the context_op and
\* commit elements, then the construct_tpl elements, of which the first is
\* templ and the others are namedtempl; children in another order (an oper
\* after a print) are rejected with an error.
C29_ChildrenGrouped ==
    pc = "done" /\ input \in ChildInputs =>
        IF Grouped(input)
        THEN /\ result.kind = "Ok"
             /\ Len(ConstructorOf(result.doc).operands) = Cardinality(GroupPlaces(input, 1))
             /\ Len(ConstructorOf(result.doc).printpiece) = Cardinality(GroupPlaces(input, 2))
             /\ Len(ConstructorOf(result.doc).contexts) = Cardinality(GroupPlaces(input, 3))
             /\ TemplatesWritten(ConstructorOf(result.doc), input, GroupPlaces(input, 4))
        ELSE result.kind = "Err"

\* children of all four groups with three construct_tpl elements
C29_Witness ==
    /\ pc = "done" /\ result.kind = "Ok" /\ input \in ChildInputs
    /\ Len(ConstructorOf(result.doc).operands) = 1
    /\ Len(ConstructorOf(result.doc).printpiece) = 2
    /\ Len(ConstructorOf(result.doc).contexts) = 2
    /\ ConstructorOf(result.doc).templ.some
    /\ Len(ConstructorOf(result.doc).namedtempl) = 2
    /\ ConstructorOf(result.doc).namedtempl[1] # ConstructorOf(result.doc).templ.val

(***************************************************************************)
(* Names that may be empty and names that may not.                         *)
(***************************************************************************)
MaxNames == 3       \* nametab elements in a name symbol

NameTabElements ==
    { <<Tag("<nametab"), Tag("/>")>>,
      <<Tag("<nametab"), Att("name", <<>>), Tag("/>")>>,
      <<Tag("<nametab"), Att("name", t_a), Tag("/>")>> }

RECURSIVE NameTabSeqs(_)
\* what is written from up to n nametab elements, one after the other
NameTabSeqs(n) ==
    IF n = 0 THEN {<<>>}
    ELSE {<<>>} \cup {e \o r : e \in NameTabElements, r \in NameTabSeqs(n - 1)}

\* a document with one source file, one address space and one name symbol
\* of the given names, the name symbol with the given nametab elements
NamesDocument(file, space, sym, nametabs) ==
    DefaultHeader
        \o << Tag("<sourcefiles>"),
              Tag("<sourcefile"), Att("name", file), Att("index", t_0), Tag("/>"),
              Tag("</sourcefiles>") >>
        \o << Tag("<spaces"), Att("defaultspace", t_ram), Tag(">"),
              Tag("<space"), Att("name", space), Att("index", t_1), Att("bigendian", t_false),
              Att("delay", t_1), Att("size", t_3), Att("physical", t_true), Tag("/>"),
              Tag("</spaces>") >>
        \o << Tag("<symbol_table"), Att("scopesize", t_1), Att("symbolsize", t_1), Tag(">"),
              Tag("<scope"), Att("id", t_0x0), Att("parent", t_0x0), Tag("/>"),
              Tag("<name_sym"), Att("name", sym), Att("id", t_0x0), Att("scope", t_0x0), Tag(">"),
              Tag("<start_exp/>") >>
        \o nametabs
        \o << Tag("</name_sym>"), Tag("</symbol_table>") >>
        \o EndBlock

NameInputs ==
    {NamesDocument(f, sp, sy, ns) :
        f \in {<<>>, t_a}, sp \in {<<>>, t_ram}, sy \in {<<>>, t_x}, ns \in NameTabSeqs(MaxNames)}

InitNames ==
    /\ input \in NameInputs
    /\ result = NoResult
    /\ prev = NoResult
    /\ ncalls = 0
    /\ other = 0
    /\ pc = "ready"
    /\ compiled = EmptyBag
    /\ threads = <<>>
    /\ cells = {}

SpecNames == InitNames /\ [][Next]_vars

\* the name of a source file, of an address space or of a symbol header is
\* written with nothing between the quotes
EmptyNameWritten(raw) ==
    \E i \in 1..(Len(raw) - 1) :
        /\ raw[i].name \in {"<sourcefile", "<space", "<name_sym"}
        /\ raw[i + 1].name = "name" /\ raw[i + 1].text = <<>>

NameTabPlaces(raw) == {i \in 1..Len(raw) : raw[i].name = "<nametab"}

\* the entry is the nametab element at place i: without the attribute its
\* name is None, with it Some of the text, the empty text included
NameTabWritten(entry, raw, i) ==
    IF raw[i + 1].name = "name"
    THEN entry.name = Some(xml_unescape(raw[i + 1].text))
    ELSE entry.name = None

NameTableOf(doc) == doc.symbol_table.symbols[1].value.nametable

\* C30: a nametab element without the name attribute has the name None and
\* one with name="" has Some of the empty string, whereas an empty name of a
\* source file, an address space or a symbol header is rejected.
C30_EmptyNames ==
    pc = "done" /\ input \in NameInputs =>
        IF EmptyNameWritten(input) THEN result.kind = "Err"
        ELSE /\ result.kind = "Ok"
             /\ result.doc.symbol_table.symbols[1].variant = "NameSymbol"
             /\ Len(NameTableOf(result.doc)) = Cardinality(NameTabPlaces(input))
             /\ \A n \in 1..Len(NameTableOf(result.doc)) :
                    NameTabWritten(NameTableOf(result.doc)[n], input,
                                   NthPlace(NameTabPlaces(input), n))

\* a name table of `<nametab/>`, `<nametab name=""/>` and a named entry
C30_Witness ==
    /\ pc = "done" /\ result.kind = "Ok" /\ input \in NameInputs
    /\ Len(NameTableOf(result.doc)) = 3
    /\ NameTableOf(result.doc)[1].name = None
    /\ NameTableOf(result.doc)[2].name = Some(<<>>)
    /\ NameTableOf(result.doc)[3].name = Some(t_a)

====
